---- MODULE Spec2Model ----
(***************************************************************************)
(* NestJS-RBAC: the two-guard chain (AuthGuard, then RolesGuard /          *)
(* PermissionsGuard / ModulePermissionsGuard) of the three examples, the   *)
(* credential tables the guards read, and the login handlers.              *)
(*                                                                         *)
(* Conventions.                                                            *)
(*  - A JavaScript value that may be undefined is a record with a field    *)
(*    def (FALSE = undefined) next to the value.                           *)
(*  - An array is a sequence: order and duplicates are kept.               *)
(*  - request.user is a record [present, username, hasCaps, caps]; caps is *)
(*    user.roles (Example 1) or user.permissions (Examples 2 and 3),       *)
(*    hasCaps = FALSE when that property is undefined.  The id and email   *)
(*    fields of the records are never read by a guard and are left out.    *)
(*  - The Authorization header is the sequence of its pieces: words        *)
(*    (non-empty strings without a space) and single spaces " ".           *)
(*    <<>> is the absent (or empty) header.                                *)
(***************************************************************************)
EXTENDS Integers, Sequences, FiniteSets, TLC

(***************************************************************************)
(* Bounds of the model.                                                    *)
(***************************************************************************)
MaxReq == 2        \* request slots
MaxTime == 1       \* clock ticks the model follows
MaxLogins == 1     \* successful logins the model follows

(***************************************************************************)
(* Program constants.                                                      *)
(***************************************************************************)
\* signOptions.expiresIn: '24h'; one clock tick of the model is 24 hours
ExpiresIn == 1

Range(f) == {f[x] : x \in DOMAIN f}

(***************************************************************************)
(* Capability vocabularies.                                                *)
(***************************************************************************)
Role == [READ |-> "read", ADMIN |-> "admin", MANAGER |-> "manager",
         SUPER_ADMIN |-> "super_admin"]

Permission == [READ |-> "read", CREATE |-> "create", UPDATE |-> "update",
               DELETE |-> "delete"]

ModulePermission ==
  [USERS_LIST |-> "users:list", USERS_READ |-> "users:read",
   USERS_CREATE |-> "users:create", USERS_UPDATE |-> "users:update",
   USERS_DELETE |-> "users:delete",
   POSTS_LIST |-> "posts:list", POSTS_READ |-> "posts:read",
   POSTS_CREATE |-> "posts:create", POSTS_UPDATE |-> "posts:update",
   POSTS_DELETE |-> "posts:delete", POSTS_PUBLISH |-> "posts:publish",
   PRODUCTS_LIST |-> "products:list", PRODUCTS_READ |-> "products:read",
   PRODUCTS_CREATE |-> "products:create", PRODUCTS_UPDATE |-> "products:update",
   PRODUCTS_DELETE |-> "products:delete",
   PRODUCTS_MANAGE_INVENTORY |-> "products:manage_inventory",
   ORDERS_LIST |-> "orders:list", ORDERS_READ |-> "orders:read",
   ORDERS_CREATE |-> "orders:create", ORDERS_UPDATE |-> "orders:update",
   ORDERS_DELETE |-> "orders:delete", ORDERS_CANCEL |-> "orders:cancel",
   ORDERS_REFUND |-> "orders:refund"]

\* Object.values(ModulePermission): the values in declaration order
AllModulePermissions ==
  <<"users:list", "users:read", "users:create", "users:update", "users:delete",
    "posts:list", "posts:read", "posts:create", "posts:update", "posts:delete",
    "posts:publish",
    "products:list", "products:read", "products:create", "products:update",
    "products:delete", "products:manage_inventory",
    "orders:list", "orders:read", "orders:create", "orders:update",
    "orders:delete", "orders:cancel", "orders:refund">>

(***************************************************************************)
(* Route metadata: what @Public(), @Roles(...), @RequirePermissions(...)   *)
(* and @RequireModulePermissions(...) attach to a handler or to its class. *)
(***************************************************************************)
NoFlag == [def |-> FALSE, val |-> FALSE]

\* Public = () => SetMetadata(IS_PUBLIC_KEY, true)
Public == [def |-> TRUE, val |-> TRUE]

\* SetMetadata(IS_PUBLIC_KEY, false)
NotPublic == [def |-> TRUE, val |-> FALSE]

NoReq == [def |-> FALSE, val |-> <<>>]

\* Roles = (...roles) => SetMetadata(ROLES_KEY, roles), and the two
\* RequirePermissions / RequireModulePermissions decorators alike
Require(caps) == [def |-> TRUE, val |-> caps]

\* a lookup that prefers the class's value to the handler's
GetAllAndOverrideClassFirst(h, c) == IF c.def THEN c ELSE h

\* a lookup that reads the handler's value alone
GetAllAndOverrideHandlerOnly(h, c) == h

\* Reflector.getAllAndOverride(key, [handler, class]): the first of the two
\* values that is not undefined
GetAllAndOverride(h, c) == IF h.def THEN h ELSE c

Route(ex, name, guarded, hPublic, hReq) ==
  [ex |-> ex, name |-> name, guarded |-> guarded,
   hPublic |-> hPublic, cPublic |-> NoFlag, hReq |-> hReq, cReq |-> NoReq]

\* @Controller('example1/users') @UseGuards(AuthGuard, RolesGuard)
Example1Routes ==
  { Route(1, "POST /example1/users/login", TRUE, Public, NoReq),
    Route(1, "GET /example1/users", TRUE, NoFlag,
          Require(<<Role.READ, Role.ADMIN, Role.MANAGER, Role.SUPER_ADMIN>>)),
    Route(1, "GET /example1/users/:id", TRUE, NoFlag,
          Require(<<Role.READ, Role.ADMIN, Role.MANAGER, Role.SUPER_ADMIN>>)),
    Route(1, "POST /example1/users", TRUE, NoFlag,
          Require(<<Role.ADMIN, Role.SUPER_ADMIN>>)),
    Route(1, "PUT /example1/users/:id", TRUE, NoFlag,
          Require(<<Role.MANAGER, Role.SUPER_ADMIN>>)),
    Route(1, "DELETE /example1/users/:id", TRUE, NoFlag,
          Require(<<Role.SUPER_ADMIN>>)),
    Route(1, "GET /example1/users/dashboard/stats", TRUE, NoFlag,
          Require(<<Role.ADMIN>>)) }

\* @Controller('example2/posts') @UseGuards(AuthGuard, PermissionsGuard)
PostsRoutes ==
  { Route(2, "GET /example2/posts/public", TRUE, Public, NoReq),
    Route(2, "GET /example2/posts", TRUE, NoFlag, Require(<<Permission.READ>>)),
    Route(2, "GET /example2/posts/:id", TRUE, NoFlag, Require(<<Permission.READ>>)),
    Route(2, "POST /example2/posts", TRUE, NoFlag, Require(<<Permission.CREATE>>)),
    Route(2, "PUT /example2/posts/:id", TRUE, NoFlag, Require(<<Permission.UPDATE>>)),
    Route(2, "DELETE /example2/posts/:id", TRUE, NoFlag,
          Require(<<Permission.DELETE>>)),
    Route(2, "PUT /example2/posts/:id/publish", TRUE, NoFlag,
          Require(<<Permission.UPDATE, Permission.CREATE>>)) }

\* @Controller('example2/auth'): no @UseGuards, the handler is @Public()
Example2AuthRoutes ==
  { Route(2, "POST /example2/auth/login", FALSE, Public, NoReq) }

\* @Controller('example3/users') @UseGuards(AuthGuard, ModulePermissionsGuard)
Example3UsersRoutes ==
  { Route(3, "GET /example3/users", TRUE, NoFlag,
          Require(<<ModulePermission.USERS_LIST>>)),
    Route(3, "GET /example3/users/:id", TRUE, NoFlag,
          Require(<<ModulePermission.USERS_READ>>)),
    Route(3, "POST /example3/users", TRUE, NoFlag,
          Require(<<ModulePermission.USERS_CREATE>>)),
    Route(3, "PUT /example3/users/:id", TRUE, NoFlag,
          Require(<<ModulePermission.USERS_UPDATE>>)),
    Route(3, "DELETE /example3/users/:id", TRUE, NoFlag,
          Require(<<ModulePermission.USERS_DELETE>>)) }

\* @Controller('example3/products') @UseGuards(AuthGuard, ModulePermissionsGuard)
Example3ProductsRoutes ==
  { Route(3, "GET /example3/products", TRUE, NoFlag,
          Require(<<ModulePermission.PRODUCTS_LIST>>)),
    Route(3, "GET /example3/products/:id", TRUE, NoFlag,
          Require(<<ModulePermission.PRODUCTS_READ>>)),
    Route(3, "POST /example3/products", TRUE, NoFlag,
          Require(<<ModulePermission.PRODUCTS_CREATE>>)),
    Route(3, "PUT /example3/products/:id", TRUE, NoFlag,
          Require(<<ModulePermission.PRODUCTS_UPDATE>>)),
    Route(3, "PATCH /example3/products/:id/inventory", TRUE, NoFlag,
          Require(<<ModulePermission.PRODUCTS_MANAGE_INVENTORY>>)),
    Route(3, "DELETE /example3/products/:id", TRUE, NoFlag,
          Require(<<ModulePermission.PRODUCTS_DELETE>>)) }

\* @Controller('example3/orders') @UseGuards(AuthGuard, ModulePermissionsGuard)
Example3OrdersRoutes ==
  { Route(3, "GET /example3/orders", TRUE, NoFlag,
          Require(<<ModulePermission.ORDERS_LIST>>)),
    Route(3, "GET /example3/orders/:id", TRUE, NoFlag,
          Require(<<ModulePermission.ORDERS_READ>>)),
    Route(3, "POST /example3/orders", TRUE, NoFlag,
          Require(<<ModulePermission.ORDERS_CREATE>>)),
    Route(3, "PUT /example3/orders/:id", TRUE, NoFlag,
          Require(<<ModulePermission.ORDERS_UPDATE>>)),
    Route(3, "PATCH /example3/orders/:id/cancel", TRUE, NoFlag,
          Require(<<ModulePermission.ORDERS_CANCEL>>)),
    Route(3, "PATCH /example3/orders/:id/refund", TRUE, NoFlag,
          Require(<<ModulePermission.ORDERS_REFUND>>)),
    Route(3, "DELETE /example3/orders/:id", TRUE, NoFlag,
          Require(<<ModulePermission.ORDERS_DELETE>>)) }

\* Example 3's AuthController (imported by example3.module.ts)
Example3AuthRoutes ==
  { Route(3, "POST /example3/auth/login", FALSE, Public, NoReq) }

AppRoutes ==
  Example1Routes \cup PostsRoutes \cup Example2AuthRoutes \cup
  Example3UsersRoutes \cup Example3ProductsRoutes \cup Example3OrdersRoutes \cup
  Example3AuthRoutes


(***************************************************************************)
(* Handlers a controller bound to the same guards may declare with the     *)
(* same decorators (README, "Creating Custom Endpoints"): the decorator    *)
(* combinations the shipped controllers do not use.  a and b are two       *)
(* capability tokens of the example's vocabulary.                          *)
(***************************************************************************)
Decorated(ex, name, hPublic, cPublic, hReq, cReq) ==
  [ex |-> ex, name |-> name, guarded |-> TRUE,
   hPublic |-> hPublic, cPublic |-> cPublic, hReq |-> hReq, cReq |-> cReq]

CustomRoutesOf(ex, a, b) ==
  { Decorated(ex, "custom: no decorator", NoFlag, NoFlag, NoReq, NoReq),
    Decorated(ex, "custom: empty requirement", NoFlag, NoFlag,
              Require(<<>>), Require(<<a>>)),
    Decorated(ex, "custom: public handler, class requirement", Public, NoFlag,
              NoReq, Require(<<a, b>>)),
    Decorated(ex, "custom: public handler with requirement", Public, NoFlag,
              Require(<<a>>), NoReq),
    Decorated(ex, "custom: public class", NoFlag, Public, NoReq, NoReq),
    Decorated(ex, "custom: class requirement", NoFlag, NoFlag,
              NoReq, Require(<<a, b>>)),
    Decorated(ex, "custom: handler and class requirement", NoFlag, NoFlag,
              Require(<<a>>), Require(<<b>>)),
    Decorated(ex, "custom: handler not public, public class", NotPublic, Public,
              NoReq, NoReq) }

CustomRoutes ==
  CustomRoutesOf(1, Role.ADMIN, Role.SUPER_ADMIN) \cup
  CustomRoutesOf(2, Permission.UPDATE, Permission.CREATE) \cup
  CustomRoutesOf(3, ModulePermission.ORDERS_REFUND, ModulePermission.ORDERS_READ)

Routes == AppRoutes \cup CustomRoutes

NoRoute == Route(0, "", FALSE, NoFlag, NoReq)

(***************************************************************************)
(* Users and credential tables.                                            *)
(***************************************************************************)
User(username, caps) ==
  [present |-> TRUE, username |-> username, hasCaps |-> TRUE, caps |-> caps]

\* null / undefined where a user record is expected
Null == [present |-> FALSE, username |-> "", hasCaps |-> FALSE, caps |-> <<>>]

\* JwtAuthService.validateUser: the mock users of Example 1
JwtUsers ==
  << User("john_admin", <<Role.ADMIN, Role.READ>>),
     User("jane_manager", <<Role.MANAGER, Role.READ>>),
     User("super_admin",
          <<Role.SUPER_ADMIN, Role.ADMIN, Role.MANAGER, Role.READ>>),
     User("reader", <<Role.READ>>) >>

\* example2 AuthService.users (every password is 'password123')
Example2Users ==
  << User("reader", <<Permission.READ>>),
     User("creator", <<Permission.READ, Permission.CREATE>>),
     User("editor", <<Permission.READ, Permission.UPDATE>>),
     User("admin", <<Permission.READ, Permission.CREATE, Permission.UPDATE,
                     Permission.DELETE>>) >>

\* example3 AuthService.users (every password is 'password123')
Example3Users ==
  << User("admin", AllModulePermissions),
     User("content_manager",
          <<ModulePermission.POSTS_LIST, ModulePermission.POSTS_READ,
            ModulePermission.POSTS_CREATE, ModulePermission.POSTS_UPDATE,
            ModulePermission.POSTS_DELETE, ModulePermission.POSTS_PUBLISH>>),
     User("product_manager",
          <<ModulePermission.PRODUCTS_LIST, ModulePermission.PRODUCTS_READ,
            ModulePermission.PRODUCTS_CREATE, ModulePermission.PRODUCTS_UPDATE,
            ModulePermission.PRODUCTS_DELETE,
            ModulePermission.PRODUCTS_MANAGE_INVENTORY>>),
     User("customer_service",
          <<ModulePermission.USERS_LIST, ModulePermission.USERS_READ,
            ModulePermission.USERS_UPDATE, ModulePermission.ORDERS_LIST,
            ModulePermission.ORDERS_READ, ModulePermission.ORDERS_UPDATE,
            ModulePermission.ORDERS_CANCEL, ModulePermission.ORDERS_REFUND>>),
     User("readonly",
          <<ModulePermission.USERS_LIST, ModulePermission.USERS_READ,
            ModulePermission.POSTS_LIST, ModulePermission.POSTS_READ,
            ModulePermission.PRODUCTS_LIST, ModulePermission.PRODUCTS_READ,
            ModulePermission.ORDERS_LIST, ModulePermission.ORDERS_READ>>) >>

Password123 == "password123"

\* users.find(predicate), hits being the indexes that satisfy the predicate:
\* the first such element, else undefined
Find(users, hits) ==
  IF hits = {} THEN Null
  ELSE users[CHOOSE i \in hits : \A j \in hits : i <= j]

\* JwtAuthService.validateUser: the password is not looked at
\* a lookup that also compares the password
JwtValidateUserChecked(username, password) ==
  Find(JwtUsers,
       {i \in 1..Len(JwtUsers) :
          JwtUsers[i].username = username /\ Password123 = password})

JwtValidateUser(username, password) ==
  Find(JwtUsers, {i \in 1..Len(JwtUsers) : JwtUsers[i].username = username})

\* example2 AuthService.validateUser
\* a lookup that matches the password alone
Example2ValidateUserByPassword(username, password) ==
  Find(Example2Users,
       {i \in 1..Len(Example2Users) : Password123 = password})

Example2ValidateUser(username, password) ==
  Find(Example2Users,
       {i \in 1..Len(Example2Users) :
          Example2Users[i].username = username /\ Password123 = password})

\* example3 AuthService.validateUser
Example3ValidateUser(username, password) ==
  Find(Example3Users,
       {i \in 1..Len(Example3Users) :
          Example3Users[i].username = username /\ Password123 = password})

\* example2 AuthGuard.validateToken: the guard's own Map of users
Example2GuardUsers ==
  ("token-read-only" :> User("reader", <<Permission.READ>>)) @@
  ("token-creator" :> User("creator", <<Permission.READ, Permission.CREATE>>)) @@
  ("token-editor" :> User("editor", <<Permission.READ, Permission.UPDATE>>)) @@
  ("token-full-access" :>
     User("admin", <<Permission.READ, Permission.CREATE, Permission.UPDATE,
                     Permission.DELETE>>))

\* a guard table holding the records of AuthService.users
Example3GuardUsersOfService ==
  ("token-admin-full" :> Example3Users[1]) @@
  ("token-content-manager" :> Example3Users[2]) @@
  ("token-product-manager" :> Example3Users[3]) @@
  ("token-customer-service" :> Example3Users[4]) @@
  ("token-readonly" :> Example3Users[5])

\* example3 AuthGuard.validateToken: the guard's own Map of users
Example3GuardUsers ==
  ("token-admin-full" :> User("admin", AllModulePermissions)) @@
  ("token-content-manager" :>
     User("content_manager",
          <<ModulePermission.POSTS_LIST, ModulePermission.POSTS_READ,
            ModulePermission.POSTS_CREATE, ModulePermission.POSTS_UPDATE,
            ModulePermission.POSTS_PUBLISH>>)) @@
  ("token-product-manager" :>
     User("product_manager",
          <<ModulePermission.PRODUCTS_LIST, ModulePermission.PRODUCTS_READ,
            ModulePermission.PRODUCTS_CREATE, ModulePermission.PRODUCTS_UPDATE,
            ModulePermission.PRODUCTS_MANAGE_INVENTORY>>)) @@
  ("token-customer-service" :>
     User("customer_service",
          <<ModulePermission.USERS_LIST, ModulePermission.USERS_READ,
            ModulePermission.ORDERS_LIST, ModulePermission.ORDERS_READ,
            ModulePermission.ORDERS_UPDATE, ModulePermission.ORDERS_CANCEL,
            ModulePermission.ORDERS_REFUND>>)) @@
  ("token-readonly" :>
     User("readonly",
          <<ModulePermission.USERS_LIST, ModulePermission.USERS_READ,
            ModulePermission.POSTS_LIST, ModulePermission.POSTS_READ,
            ModulePermission.PRODUCTS_LIST, ModulePermission.PRODUCTS_READ,
            ModulePermission.ORDERS_LIST, ModulePermission.ORDERS_READ>>))

\* Map.get(token) || null
MapGet(map, token) == IF token \in DOMAIN map THEN map[token] ELSE Null


(***************************************************************************)
(* Array helpers.                                                          *)
(***************************************************************************)
\* Array.prototype.includes
Includes(arr, x) == \E i \in 1..Len(arr) : arr[i] = x

\* String.prototype.split(' ') on a header given by its pieces: a " " piece
\* closes the current field and opens a new, empty one; any other piece is
\* appended to the current field
RECURSIVE Split(_)
Split(h) ==
  IF h = <<>> THEN <<"">>
  ELSE LET init == Split(SubSeq(h, 1, Len(h) - 1))
           last == h[Len(h)]
       IN  IF last = " " THEN Append(init, "")
           ELSE [init EXCEPT ![Len(init)] = @ \o last]

Undefined == [def |-> FALSE, val |-> ""]

Str(s) == [def |-> TRUE, val |-> s]

\* !value for a string | undefined
Falsy(v) == ~v.def \/ v.val = ""

\* an extraction that takes the last field of the header for the token
ExtractLastField(authHeader) ==
  IF authHeader = <<>> THEN Undefined
  ELSE LET fields == Split(authHeader)
           type == fields[1]
           token == IF Len(fields) >= 2 THEN Str(fields[Len(fields)])
                    ELSE Undefined
       IN  IF type = "Bearer" THEN token ELSE Undefined

\* an extraction that accepts the scheme word in any case
ExtractTokenAnyCase(authHeader) ==
  IF authHeader = <<>> THEN Undefined
  ELSE LET fields == Split(authHeader)
           type == fields[1]
           token == IF Len(fields) >= 2 THEN Str(fields[2]) ELSE Undefined
       IN  IF type \in {"Bearer", "bearer", "BEARER"} THEN token ELSE Undefined

\* AuthGuard.extractTokenFromHeader (the same code in the three examples)
ExtractTokenFromHeader(authHeader) ==
  IF authHeader = <<>> THEN Undefined
  ELSE LET fields == Split(authHeader)
           type == fields[1]
           token == IF Len(fields) >= 2 THEN Str(fields[2]) ELSE Undefined
       IN  IF type = "Bearer" THEN token ELSE Undefined

(***************************************************************************)
(* The authorization guards.  A guard's result is a decision: allow, or    *)
(* the exception it throws.  text is the exception's message, list and     *)
(* yours the arrays the message joins with ', ' (required or missing       *)
(* capabilities, and the caller's).                                        *)
(***************************************************************************)
\* Array.prototype.join
RECURSIVE Join(_, _)
Join(arr, separator) ==
  IF arr = <<>> THEN ""
  ELSE IF Len(arr) = 1 THEN arr[1]
  ELSE arr[1] \o separator \o Join(Tail(arr), separator)

Allow == [allow |-> TRUE, status |-> 0, text |-> "", list |-> <<>>, yours |-> <<>>]

Throw(status, text, list, yours) ==
  [allow |-> FALSE, status |-> status, text |-> text, list |-> list,
   yours |-> yours]

\* a role check that asks for every required role
HasEveryRole(requiredRoles, roles) ==
  \A i \in 1..Len(requiredRoles) : Includes(roles, requiredRoles[i])

\* a role check over a hierarchy read < manager < admin < super_admin: a
\* held role stands for every role below it
HasRoleOrHigher(requiredRoles, roles) ==
  LET rank == (Role.READ :> 1) @@ (Role.MANAGER :> 2) @@ (Role.ADMIN :> 3) @@
              (Role.SUPER_ADMIN :> 4)
  IN  \E i \in 1..Len(requiredRoles) : \E j \in 1..Len(roles) :
        /\ requiredRoles[i] \in DOMAIN rank
        /\ roles[j] \in DOMAIN rank
        /\ rank[roles[j]] >= rank[requiredRoles[i]]

\* requiredRoles.some((role) => user.roles.includes(role))
HasRole(requiredRoles, roles) ==
  \E i \in 1..Len(requiredRoles) : Includes(roles, requiredRoles[i])

\* a permission check that is content with one required permission
HasSomePermission(requiredPermissions, permissions) ==
  \E i \in 1..Len(requiredPermissions) : Includes(permissions, requiredPermissions[i])

\* requiredPermissions.every((permission) => user.permissions.includes(permission))
HasAllPermissions(requiredPermissions, permissions) ==
  \A i \in 1..Len(requiredPermissions) : Includes(permissions, requiredPermissions[i])

\* a denial that reports the whole requirement as missing
MissingPermissionsAll(requiredPermissions, permissions) == requiredPermissions

\* requiredPermissions.filter((permission) => !user.permissions.includes(permission))
MissingPermissions(requiredPermissions, permissions) ==
  LET Missing(permission) == ~Includes(permissions, permission)
  IN  SelectSeq(requiredPermissions, Missing)

\* a RolesGuard whose denial leaves the caller's roles out
RolesGuardTerse(route, user) ==
  LET requiredRoles == GetAllAndOverride(route.hReq, route.cReq)
  IN  IF ~requiredRoles.def \/ Len(requiredRoles.val) = 0 THEN Allow
      ELSE IF ~user.present \/ ~user.hasCaps
        THEN Throw(403, "User roles not found", <<>>, <<>>)
      ELSE IF ~HasRole(requiredRoles.val, user.caps)
        THEN Throw(403,
                   "Access denied. Required roles: " \o Join(requiredRoles.val, ", "),
                   requiredRoles.val, <<>>)
      ELSE Allow

\* example1 RolesGuard.canActivate
RolesGuard(route, user) ==
  LET requiredRoles == GetAllAndOverride(route.hReq, route.cReq)
  IN  IF ~requiredRoles.def \/ Len(requiredRoles.val) = 0 THEN Allow
      ELSE IF ~user.present \/ ~user.hasCaps
        THEN Throw(403, "User roles not found", <<>>, <<>>)
      ELSE IF ~HasRole(requiredRoles.val, user.caps)
        THEN Throw(403,
                   "Access denied. Required roles: " \o Join(requiredRoles.val, ", ")
                     \o ". Your roles: " \o Join(user.caps, ", "),
                   requiredRoles.val, user.caps)
      ELSE Allow

\* a PermissionsGuard that takes an empty permissions array for a missing one
PermissionsGuardEmptyIsMissing(route, user) ==
  LET requiredPermissions == GetAllAndOverride(route.hReq, route.cReq)
  IN  IF ~requiredPermissions.def \/ Len(requiredPermissions.val) = 0 THEN Allow
      ELSE IF ~user.present \/ ~user.hasCaps \/ Len(user.caps) = 0
        THEN Throw(403, "User permissions not found", <<>>, <<>>)
      ELSE IF ~HasAllPermissions(requiredPermissions.val, user.caps)
        THEN LET missingPermissions ==
                   MissingPermissions(requiredPermissions.val, user.caps)
             IN  Throw(403,
                       "Access denied. Missing permissions: "
                         \o Join(missingPermissions, ", ")
                         \o ". Your permissions: " \o Join(user.caps, ", "),
                       missingPermissions, user.caps)
      ELSE Allow

\* a guard that lets the subject 'reader' pass whatever is required
PermissionsGuardTrustedSubject(route, user) ==
  LET requiredPermissions == GetAllAndOverride(route.hReq, route.cReq)
  IN  IF ~requiredPermissions.def \/ Len(requiredPermissions.val) = 0 THEN Allow
      ELSE IF user.present /\ user.username = "reader" THEN Allow
      ELSE IF ~user.present \/ ~user.hasCaps
        THEN Throw(403, "User permissions not found", <<>>, <<>>)
      ELSE IF ~HasAllPermissions(requiredPermissions.val, user.caps)
        THEN LET missingPermissions ==
                   MissingPermissions(requiredPermissions.val, user.caps)
             IN  Throw(403,
                       "Access denied. Missing permissions: "
                         \o Join(missingPermissions, ", ")
                         \o ". Your permissions: " \o Join(user.caps, ", "),
                       missingPermissions, user.caps)
      ELSE Allow

\* example2 PermissionsGuard.canActivate
PermissionsGuard(route, user) ==
  LET requiredPermissions == GetAllAndOverride(route.hReq, route.cReq)
  IN  IF ~requiredPermissions.def \/ Len(requiredPermissions.val) = 0 THEN Allow
      ELSE IF ~user.present \/ ~user.hasCaps
        THEN Throw(403, "User permissions not found", <<>>, <<>>)
      ELSE IF ~HasAllPermissions(requiredPermissions.val, user.caps)
        THEN LET missingPermissions ==
                   MissingPermissions(requiredPermissions.val, user.caps)
             IN  Throw(403,
                       "Access denied. Missing permissions: "
                         \o Join(missingPermissions, ", ")
                         \o ". Your permissions: " \o Join(user.caps, ", "),
                       missingPermissions, user.caps)
      ELSE Allow

\* example3 ModulePermissionsGuard.canActivate
ModulePermissionsGuard(route, user) ==
  LET requiredPermissions == GetAllAndOverride(route.hReq, route.cReq)
  IN  IF ~requiredPermissions.def \/ Len(requiredPermissions.val) = 0 THEN Allow
      ELSE IF ~user.present \/ ~user.hasCaps
        THEN Throw(403, "User permissions not found", <<>>, <<>>)
      ELSE IF ~HasAllPermissions(requiredPermissions.val, user.caps)
        THEN LET missingPermissions ==
                   MissingPermissions(requiredPermissions.val, user.caps)
             IN  Throw(403,
                       "Access denied. Missing permissions: "
                         \o Join(missingPermissions, ", "),
                       missingPermissions, <<>>)
      ELSE Allow

\* @UseGuards(AuthGuard, X): the second guard of the example's controllers
AuthorizationGuard(route, user) ==
  CASE route.ex = 1 -> RolesGuard(route, user)
    [] route.ex = 2 -> PermissionsGuard(route, user)
    [] route.ex = 3 -> ModulePermissionsGuard(route, user)

\* a guard that reads the public flag of the class alone
IsPublicClassOnly(route) == route.cPublic.def /\ route.cPublic.val

\* const isPublic = getAllAndOverride(IS_PUBLIC_KEY, ...); if (isPublic)
IsPublic(route) ==
  LET isPublic == GetAllAndOverride(route.hPublic, route.cPublic)
  IN  isPublic.def /\ isPublic.val


(***************************************************************************)
(* State.                                                                  *)
(*   reqs       the requests in flight, one per slot (see Idle)            *)
(*   now        the clock (Date.now(), and the JWT library's clock)        *)
(*   jwt        the JWTs signed with the module's secret so far: token ->  *)
(*              [user, iat]; a string outside its domain does not verify   *)
(*   tokenMap2  example2 AuthService.tokenMap                              *)
(*   tokenMap3  example3 AuthService.tokenMap                              *)
(*   logins     login requests started so far                              *)
(***************************************************************************)
VARIABLES reqs, now, jwt, tokenMap2, tokenMap3, logins

vars == <<reqs, now, jwt, tokenMap2, tokenMap3, logins>>

ReqIds == 1..MaxReq

(***************************************************************************)
(* A request: its route and input (header, valid: whether its arguments    *)
(* satisfy the handler's DTO), where it is in the pipeline (pc), the       *)
(* guard's local `user` across its await (found), request.user (user),     *)
(* what has run for it (authn, authz: "none" / "allow" / "deny"; looked:   *)
(* validateToken was called; handled: the handler was invoked), and the    *)
(* response (status, text, list, yours, token).                            *)
(***************************************************************************)
Idle ==
  [pc |-> "idle", route |-> NoRoute, header |-> <<>>, valid |-> TRUE,
   found |-> Null, user |-> Null,
   authn |-> "none", authz |-> "none", looked |-> FALSE, handled |-> FALSE,
   status |-> 0, text |-> "", list |-> <<>>, yours |-> <<>>, token |-> "",
   username |-> "", password |-> ""]

Respond(r, status, text, list, yours, token) ==
  [r EXCEPT !.pc = "done", !.status = status, !.text = text, !.list = list,
            !.yours = yours, !.token = token]

IsLogin(route) ==
  route.name \in {"POST /example1/users/login", "POST /example2/auth/login",
                  "POST /example3/auth/login"}

\* the routes whose handler takes a class-validator DTO (@Body() or @Query())
DtoRoutes ==
  {"POST /example1/users/login", "POST /example1/users", "PUT /example1/users/:id",
   "POST /example2/auth/login", "POST /example2/posts", "PUT /example2/posts/:id",
   "POST /example3/auth/login",
   "GET /example3/users", "POST /example3/users", "PUT /example3/users/:id",
   "POST /example3/products", "PUT /example3/products/:id",
   "PATCH /example3/products/:id/inventory",
   "POST /example3/orders", "PUT /example3/orders/:id",
   "PATCH /example3/orders/:id/refund"}

(***************************************************************************)
(* Tokens.                                                                 *)
(***************************************************************************)
\* JwtAuthService.generateToken: jwtService.sign(payload); the token is a
\* function of the payload and of the time of issue
JwtSign(user, iat) == "jwt." \o user.username \o "." \o ToString(iat)

\* a verification with ignoreExpiration
VerifyTokenIgnoreExpiration(token) ==
  IF token \in DOMAIN jwt THEN jwt[token].user ELSE Null

\* JwtAuthService.verifyToken: verifyAsync throws on a bad signature and on
\* an expired token, and the catch returns null
VerifyToken(token) ==
  IF token \in DOMAIN jwt /\ now < jwt[token].iat + ExpiresIn
  THEN jwt[token].user ELSE Null

\* a token made of the username alone
GenerateTokenBare(username, time, random) == "token-" \o username

\* `token-${username}-${Date.now()}-${Math.random().toString(36).substring(7)}`
GenerateToken(username, time, random) ==
  "token-" \o username \o "-" \o ToString(time) \o "-" \o random

\* Math.random().toString(36).substring(7): a few characters, or none
Randoms == {"", "xyz789"}

\* AuthGuard.validateToken of the route's example
ValidateToken(ex, token) ==
  CASE ex = 1 -> VerifyToken(token)
    [] ex = 2 -> MapGet(Example2GuardUsers, token)
    [] ex = 3 -> MapGet(Example3GuardUsers, token)

(***************************************************************************)
(* AuthService.validateToken (Examples 2 and 3): the dynamic Map first,    *)
(* then `predefinedTokens[token] || null` on an object literal.  A         *)
(* property read on an object literal also finds the members of            *)
(* Object.prototype, which are functions or objects: truthy, and without   *)
(* username or permissions.                                                *)
(***************************************************************************)
ObjectPrototypeKeys ==
  {"constructor", "toString", "valueOf", "hasOwnProperty", "__proto__"}

PrototypeMember ==
  [present |-> TRUE, username |-> "", hasCaps |-> FALSE, caps |-> <<>>]

\* object[key] || null
ObjectGet(object, key) ==
  IF key \in DOMAIN object THEN object[key]
  ELSE IF key \in ObjectPrototypeKeys THEN PrototypeMember
  ELSE Null

\* example2 AuthService.validateToken: predefinedTokens
Example2PredefinedTokens ==
  ("token-read-only" :> User("reader", <<Permission.READ>>)) @@
  ("token-creator" :> User("creator", <<Permission.READ, Permission.CREATE>>)) @@
  ("token-editor" :> User("editor", <<Permission.READ, Permission.UPDATE>>)) @@
  ("token-full-access" :>
     User("admin", <<Permission.READ, Permission.CREATE, Permission.UPDATE,
                     Permission.DELETE>>))

\* example3 AuthService.validateToken: predefinedTokens (the permissions of
\* AuthService.users)
Example3PredefinedTokens ==
  ("token-admin-full" :> Example3Users[1]) @@
  ("token-content-manager" :> Example3Users[2]) @@
  ("token-product-manager" :> Example3Users[3]) @@
  ("token-customer-service" :> Example3Users[4]) @@
  ("token-readonly" :> Example3Users[5])

\* example2 AuthService.validateToken
Example2AuthServiceValidateToken(token) ==
  IF token \in DOMAIN tokenMap2 THEN tokenMap2[token]
  ELSE ObjectGet(Example2PredefinedTokens, token)

\* example3 AuthService.validateToken
Example3AuthServiceValidateToken(token) ==
  IF token \in DOMAIN tokenMap3 THEN tokenMap3[token]
  ELSE ObjectGet(Example3PredefinedTokens, token)

\* the credential service of example ex resolving a token
ServiceValidateToken(ex, token) ==
  CASE ex = 1 -> VerifyToken(token)
    [] ex = 2 -> Example2AuthServiceValidateToken(token)
    [] ex = 3 -> Example3AuthServiceValidateToken(token)

(***************************************************************************)
(* The inputs the model draws.                                             *)
(***************************************************************************)
\* the test tokens the README and main.ts document for Example 1
Example1TestTokens == {"token-read", "token-admin", "token-manager",
                       "token-superadmin"}

\* bearer tokens a client of example ex may send
Tokens(ex) ==
  {"no-such-token"} \cup
  (CASE ex = 1 -> Example1TestTokens \cup DOMAIN jwt
     [] ex = 2 -> DOMAIN Example2GuardUsers \cup DOMAIN tokenMap2
     [] ex = 3 -> DOMAIN Example3GuardUsers \cup DOMAIN tokenMap3)

\* tokens the malformed headers are built around
SampleTokens(ex) ==
  CASE ex = 1 -> DOMAIN jwt
    [] ex = 2 -> {"token-full-access"}
    [] ex = 3 -> {"token-admin-full"}

Headers(ex) ==
  {<<>>, <<"Basic", " ", "dXNlcjpwYXNz">>, <<"Bearer">>, <<"Bearer", " ">>} \cup
  {<<"Bearer", " ", t>> : t \in Tokens(ex)} \cup
  {<<"bearer", " ", t>> : t \in SampleTokens(ex)} \cup
  {<<"BEARER", " ", t>> : t \in SampleTokens(ex)} \cup
  {<<"Bearer", " ", " ", t>> : t \in SampleTokens(ex)} \cup
  {<<"Bearer", " ", t, " ", "extra">> : t \in SampleTokens(ex)}

Usernames(ex) ==
  CASE ex = 1 -> {"reader", "john_admin", "nobody"}
    [] ex = 2 -> {"creator", "nobody"}
    [] ex = 3 -> {"customer_service", "nobody"}

Passwords == {"password123", "letmein"}

(***************************************************************************)
(* Initial state: no request in flight, no token issued.                   *)
(***************************************************************************)
Init ==
  /\ reqs = [i \in ReqIds |-> Idle]
  /\ now = 0
  /\ jwt = <<>>
  /\ tokenMap2 = <<>>
  /\ tokenMap3 = <<>>
  /\ logins = 0

(***************************************************************************)
(* A request arrives and is routed.  A controller without @UseGuards goes  *)
(* straight to the pipes.                                                  *)
(***************************************************************************)
NewRequest(i, route, header, valid) ==
  /\ reqs[i].pc = "idle"
  /\ IsLogin(route) => logins < MaxLogins
  /\ valid \/ route.name \in DtoRoutes
  /\ reqs' = [reqs EXCEPT ![i] =
       [Idle EXCEPT !.pc = IF route.guarded THEN "auth" ELSE "pipes",
                    !.route = route, !.header = header, !.valid = valid]]
  /\ logins' = IF IsLogin(route) THEN logins + 1 ELSE logins
  /\ UNCHANGED <<now, jwt, tokenMap2, tokenMap3>>

(***************************************************************************)
(* AuthGuard.canActivate up to `await this.validateToken(token)`.          *)
(***************************************************************************)
AuthGuardCanActivate(i) ==
  LET r == reqs[i]
      token == ExtractTokenFromHeader(r.header)
  IN  /\ r.pc = "auth"
      /\ reqs' = [reqs EXCEPT ![i] =
           IF IsPublic(r.route)
             THEN [r EXCEPT !.pc = "authz", !.authn = "allow"]
           ELSE IF Falsy(token)
             THEN Respond([r EXCEPT !.authn = "deny"], 401,
                          "Authentication token not found", <<>>, <<>>, "")
           ELSE [r EXCEPT !.pc = "validate", !.looked = TRUE,
                          !.found = ValidateToken(r.route.ex, token.val)]]
      /\ UNCHANGED <<now, jwt, tokenMap2, tokenMap3, logins>>

\* an AuthGuard that keeps the looked-up user in a field of the guard, which
\* is one object for all requests: the request resumes with the user of the
\* first request that is waiting
AuthGuardResumeShared(i) ==
  LET r == reqs[i]
      waiting == {j \in ReqIds : reqs[j].pc = "validate"}
      first == CHOOSE j \in waiting : \A k \in waiting : j <= k
      user == reqs[first].found
  IN  /\ r.pc = "validate"
      /\ reqs' = [reqs EXCEPT ![i] =
           IF ~user.present
             THEN Respond([r EXCEPT !.authn = "deny"], 401,
                          "Token validation failed", <<>>, <<>>, "")
           ELSE [r EXCEPT !.pc = "authz", !.authn = "allow", !.user = user]]
      /\ UNCHANGED <<now, jwt, tokenMap2, tokenMap3, logins>>

\* an AuthGuard that starts over when the lookup found no user
AuthGuardResumeRetry(i) ==
  LET r == reqs[i]
  IN  /\ r.pc = "validate"
      /\ reqs' = [reqs EXCEPT ![i] =
           IF ~r.found.present
             THEN [r EXCEPT !.pc = "auth"]
           ELSE [r EXCEPT !.pc = "authz", !.authn = "allow", !.user = r.found]]
      /\ UNCHANGED <<now, jwt, tokenMap2, tokenMap3, logins>>

\* an AuthGuard that attaches an anonymous user before it rejects
AuthGuardResumeAnonymous(i) ==
  LET r == reqs[i]
      anonymous == [present |-> TRUE, username |-> "anonymous",
                    hasCaps |-> FALSE, caps |-> <<>>]
  IN  /\ r.pc = "validate"
      /\ reqs' = [reqs EXCEPT ![i] =
           IF ~r.found.present
             THEN Respond([r EXCEPT !.authn = "deny", !.user = anonymous], 401,
                          "Token validation failed", <<>>, <<>>, "")
           ELSE [r EXCEPT !.pc = "authz", !.authn = "allow", !.user = r.found]]
      /\ UNCHANGED <<now, jwt, tokenMap2, tokenMap3, logins>>

\* an AuthGuard that does not test the user it got before attaching it
AuthGuardResumeUnchecked(i) ==
  /\ reqs[i].pc = "validate"
  /\ reqs' = [reqs EXCEPT ![i] =
       [reqs[i] EXCEPT !.pc = "authz", !.authn = "allow", !.user = reqs[i].found]]
  /\ UNCHANGED <<now, jwt, tokenMap2, tokenMap3, logins>>

(***************************************************************************)
(* AuthGuard.canActivate after the await.  The UnauthorizedException       *)
(* ('Invalid authentication token') thrown inside the try block is caught  *)
(* by its own catch, which throws 'Token validation failed'.               *)
(***************************************************************************)
AuthGuardResume(i) ==
  LET r == reqs[i]
  IN  /\ r.pc = "validate"
      /\ reqs' = [reqs EXCEPT ![i] =
           IF ~r.found.present
             THEN Respond([r EXCEPT !.authn = "deny"], 401,
                          "Token validation failed", <<>>, <<>>, "")
           ELSE [r EXCEPT !.pc = "authz", !.authn = "allow", !.user = r.found]]
      /\ UNCHANGED <<now, jwt, tokenMap2, tokenMap3, logins>>

\* a chain that goes on to the handler whatever the second guard decides
AuthorizationGuardIgnored(i) ==
  LET r == reqs[i]
      d == AuthorizationGuard(r.route, r.user)
  IN  /\ r.pc = "authz"
      /\ reqs' = [reqs EXCEPT ![i] =
           [r EXCEPT !.pc = "pipes",
                     !.authz = IF d.allow THEN "allow" ELSE "deny"]]
      /\ UNCHANGED <<now, jwt, tokenMap2, tokenMap3, logins>>

(***************************************************************************)
(* The second guard of the chain.                                          *)
(***************************************************************************)
AuthorizationGuardCanActivate(i) ==
  LET r == reqs[i]
      d == AuthorizationGuard(r.route, r.user)
  IN  /\ r.pc = "authz"
      /\ reqs' = [reqs EXCEPT ![i] =
           IF d.allow THEN [r EXCEPT !.pc = "pipes", !.authz = "allow"]
           ELSE Respond([r EXCEPT !.authz = "deny"], d.status, d.text, d.list,
                        d.yours, "")]
      /\ UNCHANGED <<now, jwt, tokenMap2, tokenMap3, logins>>

(***************************************************************************)
(* app.useGlobalPipes(new ValidationPipe(...)): arguments that do not      *)
(* satisfy the handler's DTO end the request with 400.                     *)
(***************************************************************************)
ValidationPipe(i) ==
  LET r == reqs[i]
  IN  /\ r.pc = "pipes"
      /\ reqs' = [reqs EXCEPT ![i] =
           IF r.valid THEN [r EXCEPT !.pc = "handler"]
           ELSE Respond(r, 400, "Bad Request", <<>>, <<>>, "")]
      /\ UNCHANGED <<now, jwt, tokenMap2, tokenMap3, logins>>

(***************************************************************************)
(* The handlers.                                                           *)
(***************************************************************************)
\* every handler but the three logins: builds its response, changes nothing
Handler(i) ==
  LET r == reqs[i]
  IN  /\ r.pc = "handler"
      /\ ~IsLogin(r.route)
      /\ reqs' = [reqs EXCEPT ![i] =
           Respond([r EXCEPT !.handled = TRUE], 200, "", <<>>, <<>>, "")]
      /\ UNCHANGED <<now, jwt, tokenMap2, tokenMap3, logins>>

\* the login handler has run on the body's username (@Body() loginDto)
LoginDto(r, username, password) ==
  [r EXCEPT !.handled = TRUE, !.username = username, !.password = password]

\* example1 UsersController.login
Example1Login(i, username, password) ==
  LET r == reqs[i]
      user == JwtValidateUser(username, password)
      token == JwtSign(user, now)
  IN  /\ r.pc = "handler"
      /\ r.route.name = "POST /example1/users/login"
      /\ IF ~user.present
           THEN /\ reqs' = [reqs EXCEPT ![i] =
                     Respond(LoginDto(r, username, password), 401,
                             "Invalid credentials", <<>>, <<>>, "")]
                /\ jwt' = jwt
           ELSE /\ reqs' = [reqs EXCEPT ![i] =
                     Respond(LoginDto(r, username, password), 200,
                             "Login successful", <<>>, user.caps, token)]
                /\ jwt' = (token :> [user |-> user, iat |-> now]) @@ jwt
      /\ UNCHANGED <<now, tokenMap2, tokenMap3, logins>>

\* example2 AuthController.login, with AuthService.generateToken
Example2Login(i, username, password, random) ==
  LET r == reqs[i]
      user == Example2ValidateUser(username, password)
      token == GenerateToken(user.username, now, random)
  IN  /\ r.pc = "handler"
      /\ r.route.name = "POST /example2/auth/login"
      /\ IF ~user.present
           THEN /\ reqs' = [reqs EXCEPT ![i] =
                     Respond(LoginDto(r, username, password), 401,
                             "Invalid username or password", <<>>, <<>>, "")]
                /\ tokenMap2' = tokenMap2
           ELSE /\ reqs' = [reqs EXCEPT ![i] =
                     Respond(LoginDto(r, username, password), 200,
                             "Login successful", <<>>, user.caps, token)]
                /\ tokenMap2' = (token :> user) @@ tokenMap2
      /\ UNCHANGED <<now, jwt, tokenMap3, logins>>

\* example3 AuthController.login, with AuthService.generateToken
Example3Login(i, username, password, random) ==
  LET r == reqs[i]
      user == Example3ValidateUser(username, password)
      token == GenerateToken(user.username, now, random)
  IN  /\ r.pc = "handler"
      /\ r.route.name = "POST /example3/auth/login"
      /\ IF ~user.present
           THEN /\ reqs' = [reqs EXCEPT ![i] =
                     Respond(LoginDto(r, username, password), 401,
                             "Invalid username or password", <<>>, <<>>, "")]
                /\ tokenMap3' = tokenMap3
           ELSE /\ reqs' = [reqs EXCEPT ![i] =
                     Respond(LoginDto(r, username, password), 200,
                             "Login successful", <<>>, user.caps, token)]
                /\ tokenMap3' = (token :> user) @@ tokenMap3
      /\ UNCHANGED <<now, jwt, tokenMap2, logins>>

\* the response is sent; the slot is free for the next request
Complete(i) ==
  /\ reqs[i].pc = "done"
  /\ reqs' = [reqs EXCEPT ![i] = Idle]
  /\ UNCHANGED <<now, jwt, tokenMap2, tokenMap3, logins>>

\* time passes
Tick ==
  /\ now < MaxTime
  /\ now' = now + 1
  /\ UNCHANGED <<reqs, jwt, tokenMap2, tokenMap3, logins>>

(***************************************************************************)
(* The steps of slot i, with the inputs the model draws for them.          *)
(***************************************************************************)
Arrive(i) ==
  /\ reqs[i].pc = "idle"
  /\ \E route \in Routes : \E header \in Headers(route.ex) : \E valid \in BOOLEAN :
       NewRequest(i, route, header, valid)

Login1(i) ==
  /\ reqs[i].pc = "handler"
  /\ \E username \in Usernames(1) : \E password \in Passwords :
       Example1Login(i, username, password)

Login2(i) ==
  /\ reqs[i].pc = "handler"
  /\ \E username \in Usernames(2) : \E password \in Passwords :
       \E random \in Randoms : Example2Login(i, username, password, random)

Login3(i) ==
  /\ reqs[i].pc = "handler"
  /\ \E username \in Usernames(3) : \E password \in Passwords :
       \E random \in Randoms : Example3Login(i, username, password, random)

(***************************************************************************)
(* The application serving one request at a time (slot 1), with logins.    *)
(***************************************************************************)
Next ==
  \/ Arrive(1)
  \/ AuthGuardCanActivate(1)
  \/ AuthGuardResume(1)
  \/ AuthorizationGuardCanActivate(1)
  \/ ValidationPipe(1)
  \/ Handler(1)
  \/ Login1(1)
  \/ Login2(1)
  \/ Login3(1)
  \/ Complete(1)
  \/ Tick

Spec == Init /\ [][Next]_vars


(***************************************************************************)
(* The authorization guard on its own: canActivate applied to a route's    *)
(* metadata and to a request.user drawn from the values the property can   *)
(* hold (undefined, a record without the array, a record with an array of  *)
(* at most MaxCaps capabilities, and the records of the credential         *)
(* tables).                                                                *)
(***************************************************************************)
MaxCaps == 2

RECURSIVE SeqsUpTo(_, _)
SeqsUpTo(S, n) ==
  IF n = 0 THEN {<<>>}
  ELSE LET shorter == SeqsUpTo(S, n - 1)
       IN  shorter \cup {Append(s, x) : s \in shorter, x \in S}

CapSamples(ex) ==
  CASE ex = 1 -> {Role.ADMIN, Role.SUPER_ADMIN, Role.READ}
    [] ex = 2 -> {Permission.UPDATE, Permission.CREATE, Permission.READ}
    [] ex = 3 -> {ModulePermission.ORDERS_REFUND, ModulePermission.ORDERS_READ,
                  ModulePermission.ORDERS_LIST}

TableUsers(ex) ==
  CASE ex = 1 -> Range(JwtUsers)
    [] ex = 2 -> Range(Example2GuardUsers)
    [] ex = 3 -> Range(Example3GuardUsers)

GuardUsers(ex) ==
  {Null, [present |-> TRUE, username |-> "user", hasCaps |-> FALSE, caps |-> <<>>]}
  \cup {User("user", caps) : caps \in SeqsUpTo(CapSamples(ex), MaxCaps)}
  \cup TableUsers(ex)

GuardedRoutes == {route \in Routes : route.guarded}

InitGuard ==
  /\ \E route \in GuardedRoutes : \E user \in GuardUsers(route.ex) :
       reqs = [i \in ReqIds |->
                 IF i = 1
                 THEN [Idle EXCEPT !.pc = "authz", !.route = route,
                                   !.authn = "allow", !.user = user]
                 ELSE Idle]
  /\ now = 0
  /\ jwt = <<>>
  /\ tokenMap2 = <<>>
  /\ tokenMap3 = <<>>
  /\ logins = 0

NextGuard == AuthorizationGuardCanActivate(1)

SpecGuard == InitGuard /\ [][NextGuard]_vars


(***************************************************************************)
(* The tokens the logins of example ex have issued so far, and the record  *)
(* each was issued for.                                                    *)
(***************************************************************************)
IssuedTokens(ex) ==
  CASE ex = 1 -> DOMAIN jwt
    [] ex = 2 -> DOMAIN tokenMap2
    [] ex = 3 -> DOMAIN tokenMap3

IssuedRecord(ex, token) ==
  CASE ex = 1 -> jwt[token].user
    [] ex = 2 -> tokenMap2[token]
    [] ex = 3 -> tokenMap3[token]

(***************************************************************************)
(* The credential services in use: logins, requests with a bearer token    *)
(* and direct calls of the services' token lookup, by one caller at a time *)
(* (SpecStore) and by concurrent callers (SpecConcurrent).                 *)
(***************************************************************************)
MaxIssues == 2

StoreRoutes ==
  {route \in AppRoutes :
     \/ IsLogin(route)
     \/ route.name \in {"GET /example1/users", "GET /example2/posts",
                        "GET /example3/orders"}}

\* the tokens a caller may hand to a lookup
LookupTokens(ex) ==
  IssuedTokens(ex) \cup {"no-such-token", "constructor"} \cup
  (CASE ex = 1 -> {"token-admin"}
     [] ex = 2 -> {"token-creator"}
     [] ex = 3 -> {"token-content-manager"})

StoreHeaders(route) ==
  IF IsLogin(route) THEN {<<>>}
  ELSE {<<"Bearer", " ", t>> : t \in LookupTokens(route.ex)}

ArriveStore(i) ==
  /\ reqs[i].pc = "idle"
  /\ \E route \in StoreRoutes : \E header \in StoreHeaders(route) :
       /\ IsLogin(route) => logins < MaxIssues
       /\ reqs' = [reqs EXCEPT ![i] =
            [Idle EXCEPT !.pc = IF route.guarded THEN "auth" ELSE "pipes",
                         !.route = route, !.header = header]]
       /\ logins' = IF IsLogin(route) THEN logins + 1 ELSE logins
       /\ UNCHANGED <<now, jwt, tokenMap2, tokenMap3>>

\* a direct call of the service's lookup; the slot holds its argument and
\* its return value
ServiceCall(ex) == [NoRoute EXCEPT !.ex = ex, !.name = "validateToken"]

\* a lookup that spends the token it resolves: the dynamic record is deleted
ResolveAndConsume(i, ex, token) ==
  /\ reqs[i].pc = "idle"
  /\ reqs' = [reqs EXCEPT ![i] =
       [Idle EXCEPT !.pc = "done", !.route = ServiceCall(ex), !.looked = TRUE,
                    !.token = token, !.found = ServiceValidateToken(ex, token)]]
  /\ jwt' = [t \in DOMAIN jwt \ (IF ex = 1 THEN {token} ELSE {}) |-> jwt[t]]
  /\ tokenMap2' = [t \in DOMAIN tokenMap2 \ (IF ex = 2 THEN {token} ELSE {}) |->
                     tokenMap2[t]]
  /\ tokenMap3' = [t \in DOMAIN tokenMap3 \ (IF ex = 3 THEN {token} ELSE {}) |->
                     tokenMap3[t]]
  /\ UNCHANGED <<now, logins>>

Resolve(i, ex, token) ==
  /\ reqs[i].pc = "idle"
  /\ reqs' = [reqs EXCEPT ![i] =
       [Idle EXCEPT !.pc = "done", !.route = ServiceCall(ex), !.looked = TRUE,
                    !.token = token, !.found = ServiceValidateToken(ex, token)]]
  /\ UNCHANGED <<now, jwt, tokenMap2, tokenMap3, logins>>

Lookup(i) ==
  /\ reqs[i].pc = "idle"
  /\ \E ex \in 1..3 : \E token \in LookupTokens(ex) : Resolve(i, ex, token)

StoreUsernames(ex) ==
  CASE ex = 1 -> {"reader"}
    [] ex = 2 -> {"creator"}
    [] ex = 3 -> {"customer_service"}

StoreLogin(i) ==
  /\ reqs[i].pc = "handler"
  /\ \/ \E username \in StoreUsernames(1) : Example1Login(i, username, Password123)
     \/ \E username \in StoreUsernames(2) : \E random \in Randoms :
          Example2Login(i, username, Password123, random)
     \/ \E username \in StoreUsernames(3) : \E random \in Randoms :
          Example3Login(i, username, Password123, random)

\* one caller at a time
NextStore ==
  \/ ArriveStore(1)
  \/ Lookup(1)
  \/ AuthGuardCanActivate(1)
  \/ AuthGuardResume(1)
  \/ AuthorizationGuardCanActivate(1)
  \/ ValidationPipe(1)
  \/ Handler(1)
  \/ StoreLogin(1)
  \/ Complete(1)
  \/ Tick

SpecStore == Init /\ [][NextStore]_vars

\* every slot in use, the steps of the requests interleaved
NextConcurrent ==
  \/ \E i \in ReqIds : ArriveStore(i)
  \/ \E i \in ReqIds : Lookup(i)
  \/ \E i \in ReqIds : AuthGuardCanActivate(i)
  \/ \E i \in ReqIds : AuthGuardResume(i)
  \/ \E i \in ReqIds : AuthorizationGuardCanActivate(i)
  \/ \E i \in ReqIds : ValidationPipe(i)
  \/ \E i \in ReqIds : Handler(i)
  \/ \E i \in ReqIds : StoreLogin(i)
  \/ \E i \in ReqIds : Complete(i)
  \/ Tick

SpecConcurrent == Init /\ [][NextConcurrent]_vars

(***************************************************************************)
(* The terms of the claims, stated on routes and requests without the      *)
(* guards' code.                                                           *)
(***************************************************************************)
\* the route is marked public: at the handler, or at the class when the
\* handler carries no flag
MarkedPublic(route) ==
  \/ route.hPublic = Public
  \/ route.hPublic = NoFlag /\ route.cPublic = Public

\* the route's required capabilities: those of the handler, or of the class
\* when the handler carries none, or none at all
RequiredCapabilities(route) ==
  IF route.hReq.def THEN route.hReq.val
  ELSE IF route.cReq.def THEN route.cReq.val
  ELSE <<>>

\* the bearer tokens the credential store of example ex knows
KnownTokens(ex) ==
  CASE ex = 1 -> DOMAIN jwt
    [] ex = 2 -> DOMAIN Example2GuardUsers \cup DOMAIN tokenMap2
    [] ex = 3 -> DOMAIN Example3GuardUsers \cup DOMAIN tokenMap3

\* no Authorization header, or one whose scheme is not Bearer
NoBearer(r) == r.header = <<>> \/ r.header[1] # "Bearer"

\* 'Bearer <token>' with a token the credential store does not know
UnknownToken(r) ==
  /\ Len(r.header) = 3
  /\ r.header[1] = "Bearer"
  /\ r.header[2] = " "
  /\ r.header[3] \notin KnownTokens(r.route.ex)

InFlight(r) == r.pc # "idle"

(***************************************************************************)
(* C1.  On every non-public route of the three examples, a request with no *)
(* Authorization header, with a scheme other than Bearer, or with a bearer *)
(* token the credential store does not know ends with 401 from the         *)
(* authentication guard, and the authorization guard is never evaluated    *)
(* for it (nor is the handler).                                            *)
(***************************************************************************)
C1_UnauthenticatedIs401 ==
  \A i \in ReqIds :
    LET r == reqs[i]
    IN  ( /\ InFlight(r)
          /\ r.route.guarded
          /\ ~MarkedPublic(r.route)
          /\ (NoBearer(r) \/ UnknownToken(r)) )
        => /\ r.authz = "none"
           /\ ~r.handled
           /\ ~r.user.present
           /\ r.pc \in {"auth", "validate", "done"}
           /\ r.pc = "done" => (r.status = 401 /\ r.authn = "deny")

\* an unknown bearer token was looked up and answered with 401
C1_Witness ==
  \E i \in ReqIds :
    /\ reqs[i].pc = "done"
    /\ reqs[i].route.guarded
    /\ ~MarkedPublic(reqs[i].route)
    /\ reqs[i].header = <<"Bearer", " ", "no-such-token">>
    /\ reqs[i].looked
    /\ reqs[i].status = 401

(***************************************************************************)
(* C2.  Original statement: for a request through the guard chain, the     *)
(* handler runs if and only if both guards allowed.                        *)
(***************************************************************************)
C2_HandlerIffBothAllow ==
  \A i \in ReqIds :
    LET r == reqs[i]
    IN  (r.pc = "done" /\ r.route.guarded)
        => (r.handled <=> (r.authn = "allow" /\ r.authz = "allow"))

(***************************************************************************)
(* C2, amended.  The handler runs only after both guards allowed; when a   *)
(* guard denies, the request ends with 401 (authentication) or 403         *)
(* (authorization) and its handler is never invoked; when both allow, the  *)
(* handler is invoked unless the global ValidationPipe rejects the         *)
(* request's arguments with 400.                                           *)
(***************************************************************************)
C2_HandlerOnlyAfterBothAllow ==
  \A i \in ReqIds :
    LET r == reqs[i]
    IN  (InFlight(r) /\ r.route.guarded)
        => /\ r.handled => (r.authn = "allow" /\ r.authz = "allow")
           /\ r.authn = "deny" => (r.pc = "done" /\ r.status = 401 /\ ~r.handled)
           /\ r.authz = "deny" => (r.pc = "done" /\ r.status = 403 /\ ~r.handled)
           /\ (r.pc = "done" /\ r.authn = "allow" /\ r.authz = "allow")
                => (r.handled \/ (~r.valid /\ r.status = 400))

\* an authenticated request on a protected route reached its handler
C2_Witness ==
  \E i \in ReqIds :
    /\ reqs[i].pc = "done"
    /\ reqs[i].route.guarded
    /\ ~MarkedPublic(reqs[i].route)
    /\ RequiredCapabilities(reqs[i].route) # <<>>
    /\ reqs[i].user.present
    /\ reqs[i].handled

(***************************************************************************)
(* C3.  Original statement: on the three public routes a request with no   *)
(* Authorization header passes both guards, its handler is invoked, and no *)
(* identity is attached to it.                                             *)
(***************************************************************************)
PublicAppRoutes ==
  {"POST /example1/users/login", "GET /example2/posts/public",
   "POST /example2/auth/login"}

C3_PublicHandlerInvoked ==
  \A i \in ReqIds :
    LET r == reqs[i]
    IN  (r.pc = "done" /\ r.route.name \in PublicAppRoutes /\ r.header = <<>>)
        => /\ r.authn # "deny" /\ r.authz # "deny"
           /\ r.handled
           /\ ~r.user.present

(***************************************************************************)
(* C3, amended.  On the three public routes a request with no              *)
(* Authorization header is denied by neither guard, no token is looked up  *)
(* and no identity is ever attached to it, and its handler is invoked      *)
(* unless the global ValidationPipe rejects the login body with 400.       *)
(***************************************************************************)
C3_PublicBypass ==
  \A i \in ReqIds :
    LET r == reqs[i]
    IN  (InFlight(r) /\ r.route.name \in PublicAppRoutes /\ r.header = <<>>)
        => /\ r.authn # "deny" /\ r.authz # "deny"
           /\ ~r.looked
           /\ ~r.user.present
           /\ r.status \notin {401, 403} \/ r.handled
           /\ r.pc = "done" => (r.handled \/ (~r.valid /\ r.status = 400))

\* GET /example2/posts/public was served to a request without a header
C3_Witness ==
  \E i \in ReqIds :
    /\ reqs[i].pc = "done"
    /\ reqs[i].route.name = "GET /example2/posts/public"
    /\ reqs[i].header = <<>>
    /\ reqs[i].authn = "allow"
    /\ reqs[i].authz = "allow"
    /\ reqs[i].handled
    /\ ~reqs[i].user.present


(***************************************************************************)
(* The authorization guard's verdict on a request, in the claims' terms.   *)
(***************************************************************************)
\* the authorization guard has been evaluated for the request
Evaluated(r) == r.authz # "none"

\* the identity attached to the request carries a capability array
HasGranted(r) == r.user.present /\ r.user.hasCaps

\* R \ G, in the order of R
RECURSIVE Minus(_, _)
Minus(R, G) ==
  IF R = <<>> THEN <<>>
  ELSE (IF Head(R) \in Range(G) THEN <<>> ELSE <<Head(R)>>) \o Minus(Tail(R), G)

NotFoundTexts == {"User roles not found", "User permissions not found"}

(***************************************************************************)
(* C4.  ANY rule: for an identity with role array G on an Example 1 route  *)
(* with a non-empty required role array R, RolesGuard allows if and only   *)
(* if R and G have a role in common (so an empty G is denied).             *)
(***************************************************************************)
C4_AnyRule ==
  \A i \in ReqIds :
    LET r == reqs[i]
        R == RequiredCapabilities(r.route)
        G == r.user.caps
    IN  ( /\ r.route.ex = 1
          /\ Evaluated(r)
          /\ R # <<>>
          /\ HasGranted(r) )
        => (r.authz = "allow" <=> Range(R) \cap Range(G) # {})

\* required <<admin, super_admin>>, granted <<super_admin>>: allowed
C4_Witness ==
  \E i \in ReqIds :
    /\ reqs[i].route.name = "POST /example1/users"
    /\ RequiredCapabilities(reqs[i].route) = <<"admin", "super_admin">>
    /\ reqs[i].user.caps = <<"super_admin">>
    /\ reqs[i].authz = "allow"

(***************************************************************************)
(* C5.  ALL rule: for an identity with permission array G on an Example 2  *)
(* or Example 3 route with a non-empty required array R, PermissionsGuard  *)
(* and ModulePermissionsGuard allow if and only if every element of R is   *)
(* in G; PUT /example2/posts/:id/publish is allowed only with both update  *)
(* and create.                                                             *)
(***************************************************************************)
C5_AllRule ==
  \A i \in ReqIds :
    LET r == reqs[i]
        R == RequiredCapabilities(r.route)
        G == r.user.caps
    IN  ( /\ r.route.ex \in {2, 3}
          /\ Evaluated(r)
          /\ R # <<>>
          /\ HasGranted(r) )
        => /\ r.authz = "allow" <=> Range(R) \subseteq Range(G)
           /\ (r.route.name = "PUT /example2/posts/:id/publish" /\ r.authz = "allow")
                => {"update", "create"} \subseteq Range(G)

\* the publish route allowed an identity holding update and create
C5_Witness ==
  \E i \in ReqIds :
    /\ reqs[i].route.name = "PUT /example2/posts/:id/publish"
    /\ RequiredCapabilities(reqs[i].route) = <<"update", "create">>
    /\ Range(reqs[i].user.caps) = {"update", "create"}
    /\ reqs[i].authz = "allow"

(***************************************************************************)
(* C6.  Whenever the ALL rule denies (Example 2 or 3, the identity has a   *)
(* permission array), the response is 403 and the missing array of its     *)
(* message is exactly required minus granted: non-empty and in the order   *)
(* of the requirement.                                                     *)
(***************************************************************************)
C6_MissingIsRequiredMinusGranted ==
  \A i \in ReqIds :
    LET r == reqs[i]
        R == RequiredCapabilities(r.route)
        G == r.user.caps
    IN  ( /\ r.route.ex \in {2, 3}
          /\ r.authz = "deny"
          /\ HasGranted(r) )
        => /\ r.pc = "done"
           /\ r.status = 403
           /\ r.list # <<>>
           /\ r.list = Minus(R, G)
           /\ Range(r.list) = Range(R) \ Range(G)
           /\ r.text = IF r.route.ex = 3
                       THEN "Access denied. Missing permissions: " \o Join(r.list, ", ")
                       ELSE "Access denied. Missing permissions: " \o Join(r.list, ", ")
                              \o ". Your permissions: " \o Join(G, ", ")

\* required <<orders:refund>>, granted <<orders:list, orders:read>>
C6_Witness ==
  \E i \in ReqIds :
    /\ reqs[i].route.name = "PATCH /example3/orders/:id/refund"
    /\ reqs[i].user.caps = <<"orders:list", "orders:read">>
    /\ reqs[i].authz = "deny"
    /\ reqs[i].status = 403
    /\ reqs[i].list = <<"orders:refund">>
    /\ reqs[i].text = "Access denied. Missing permissions: orders:refund"

(***************************************************************************)
(* C7.  Whenever the ANY rule denies (Example 1, the identity has a role   *)
(* array), the response is 403 and its message enumerates all required     *)
(* roles of the route in declaration order, and the caller's roles.        *)
(***************************************************************************)
C7_AnyDenialListsRoles ==
  \A i \in ReqIds :
    LET r == reqs[i]
        R == RequiredCapabilities(r.route)
        G == r.user.caps
    IN  ( /\ r.route.ex = 1
          /\ r.authz = "deny"
          /\ HasGranted(r) )
        => /\ r.pc = "done"
           /\ r.status = 403
           /\ r.list = R
           /\ r.yours = G
           /\ r.text = "Access denied. Required roles: " \o Join(R, ", ")
                         \o ". Your roles: " \o Join(G, ", ")

\* required <<admin, super_admin>>, granted <<read>>
C7_Witness ==
  \E i \in ReqIds :
    /\ RequiredCapabilities(reqs[i].route) = <<"admin", "super_admin">>
    /\ reqs[i].user.caps = <<"read">>
    /\ reqs[i].authz = "deny"
    /\ reqs[i].status = 403
    /\ reqs[i].text =
         "Access denied. Required roles: admin, super_admin. Your roles: read"

(***************************************************************************)
(* C8.  Original statement: when the route has a non-empty requirement and *)
(* the identity is absent, or its capability array is absent or empty, the *)
(* authorization guard denies with 'User roles/permissions not found'.     *)
(***************************************************************************)
C8_AbsentOrEmptyIsNotFound ==
  \A i \in ReqIds :
    LET r == reqs[i]
        R == RequiredCapabilities(r.route)
    IN  ( /\ Evaluated(r)
          /\ R # <<>>
          /\ (~HasGranted(r) \/ r.user.caps = <<>>) )
        => (r.authz = "deny" /\ r.status = 403 /\ r.text \in NotFoundTexts)

(***************************************************************************)
(* C8, amended.  When the route has a non-empty requirement and the        *)
(* identity or its capability array is absent, the authorization guard     *)
(* denies with 403 'User roles not found' (Example 1) or 'User permissions *)
(* not found' (Examples 2 and 3).  An identity whose array is present      *)
(* fails the match rule instead, an empty array included, and gets the     *)
(* 'Access denied. ...' denial, never the 'not found' one.                 *)
(***************************************************************************)
C8_AbsentIsNotFound ==
  \A i \in ReqIds :
    LET r == reqs[i]
        R == RequiredCapabilities(r.route)
    IN  (Evaluated(r) /\ R # <<>>)
        => /\ ~HasGranted(r)
                => /\ r.authz = "deny"
                   /\ r.status = 403
                   /\ r.text = IF r.route.ex = 1 THEN "User roles not found"
                               ELSE "User permissions not found"
           /\ (HasGranted(r) /\ r.authz = "deny")
                => /\ r.status = 403
                   /\ r.text \notin NotFoundTexts
           /\ (HasGranted(r) /\ r.user.caps = <<>>) => r.authz = "deny"

\* an identity without a permissions array was denied with 'not found'
C8_Witness ==
  \E i \in ReqIds :
    /\ reqs[i].route.name = "POST /example2/posts"
    /\ reqs[i].user.present
    /\ ~reqs[i].user.hasCaps
    /\ reqs[i].authz = "deny"
    /\ reqs[i].text = "User permissions not found"

(***************************************************************************)
(* C9.  On a non-public route whose requirement is absent at handler and   *)
(* class, or empty, a request without an identity ends with 401 from the   *)
(* authentication guard, and every request with an identity is allowed by  *)
(* the authorization guard, whatever the identity's capability array (an   *)
(* empty or absent one included).                                          *)
(***************************************************************************)
C9_AuthenticatedOnly ==
  \A i \in ReqIds :
    LET r == reqs[i]
    IN  ( /\ InFlight(r)
          /\ r.route.guarded
          /\ ~MarkedPublic(r.route)
          /\ RequiredCapabilities(r.route) = <<>> )
        => /\ r.authz # "deny"
           /\ r.status # 403
           /\ ~r.user.present => (~Evaluated(r) /\ ~r.handled)
           /\ (r.pc = "done" /\ ~r.user.present)
                => (r.status = 401 /\ r.authn = "deny")
           /\ r.user.present
                => /\ r.authn = "allow"
                   /\ r.status # 401
                   /\ \A user \in GuardUsers(r.route.ex) :
                        user.present => AuthorizationGuard(r.route, user).allow

\* an authenticated request was served on a route without a requirement
C9_Witness ==
  \E i \in ReqIds :
    /\ reqs[i].pc = "done"
    /\ reqs[i].route.guarded
    /\ ~MarkedPublic(reqs[i].route)
    /\ reqs[i].route.hReq = Require(<<>>)
    /\ reqs[i].user.present
    /\ reqs[i].authz = "allow"
    /\ reqs[i].handled

(***************************************************************************)
(* C10.  For any route marked public, the request is allowed whatever      *)
(* requirement the handler or its class carries: the authorization guard   *)
(* never denies a public route.                                            *)
(***************************************************************************)
C10_PublicNeverDenied ==
  \A i \in ReqIds :
    LET r == reqs[i]
    IN  (InFlight(r) /\ r.route.guarded /\ MarkedPublic(r.route))
        => (r.authn # "deny" /\ r.authz # "deny")


\* the request carries 'Bearer <token>' with a token a login has issued
BearsIssuedToken(r) ==
  /\ Len(r.header) = 3
  /\ r.header[1] = "Bearer"
  /\ r.header[2] = " "
  /\ r.header[3] \in IssuedTokens(r.route.ex)

\* the authentication guard has finished with the request
Authenticated(r) == r.authn # "none"

(***************************************************************************)
(* C11.  In each of the three examples, a token returned by a successful   *)
(* login is accepted by the example's authentication guard on any later    *)
(* request to a non-public route, and the identity attached carries        *)
(* exactly the capabilities of the user who logged in.                     *)
(***************************************************************************)
C11_LoginTokenAccepted ==
  \A i \in ReqIds :
    LET r == reqs[i]
    IN  ( /\ r.route.guarded
          /\ ~MarkedPublic(r.route)
          /\ BearsIssuedToken(r)
          /\ Authenticated(r) )
        => /\ r.authn = "allow"
           /\ r.user.present
           /\ r.user.caps = IssuedRecord(r.route.ex, r.header[3]).caps


(***************************************************************************)
(* Direct calls of the credential services' lookup.                        *)
(***************************************************************************)
\* the slot holds a returned call of the lookup of example ex
Resolved(r, ex) ==
  r.pc = "done" /\ r.route.name = "validateToken" /\ r.route.ex = ex

\* the static table of AuthService in Examples 2 and 3
StaticTable(ex) ==
  IF ex = 2 THEN Example2PredefinedTokens ELSE Example3PredefinedTokens

(***************************************************************************)
(* C12.  AuthService.validateToken (Examples 2 and 3) returns the dynamic  *)
(* map's record when the token is a key of the dynamic map, otherwise the  *)
(* static table's record when the token is a static key, otherwise null;   *)
(* JwtAuthService.verifyToken returns null for a token that does not       *)
(* verify.                                                                 *)
(***************************************************************************)
C12_DynamicThenStaticElseNull ==
  \A i \in ReqIds :
    LET r == reqs[i]
    IN  /\ \A ex \in {2, 3} :
             Resolved(r, ex)
             => r.found =
                  IF r.token \in IssuedTokens(ex) THEN IssuedRecord(ex, r.token)
                  ELSE IF r.token \in DOMAIN StaticTable(ex)
                    THEN StaticTable(ex)[r.token]
                  ELSE Null
        /\ (Resolved(r, 1) /\ r.token \notin DOMAIN jwt) => r.found = Null


(***************************************************************************)
(* Steps that only read the credential store: a guard stage of request i   *)
(* (the authentication guard before and after its await, the authorization *)
(* guard), and a direct call of a service's lookup in slot i.              *)
(***************************************************************************)
GuardStage(i) ==
  reqs[i].pc \in {"auth", "validate", "authz"} /\ reqs'[i] # reqs[i]

LookupCall(i) ==
  reqs[i].pc = "idle" /\ reqs'[i].pc = "done" /\ reqs'[i].route.name = "validateToken"

\* every token resolves after the step to what it resolved to before it
SameResolution ==
  \A ex \in 1..3 : \A token \in LookupTokens(ex) :
    /\ ServiceValidateToken(ex, token)' = ServiceValidateToken(ex, token)
    /\ ValidateToken(ex, token)' = ValidateToken(ex, token)

LoggedIn(i) ==
  /\ reqs[i].pc = "done"
  /\ IsLogin(reqs[i].route)
  /\ reqs[i].status = 200

(***************************************************************************)
(* C14.  Logins that interleave in any order, with each other and with     *)
(* token lookups, are given pairwise distinct token strings, and each      *)
(* token is stored with the record of its own login.                       *)
(***************************************************************************)
C14_DistinctTokens ==
  \A i \in ReqIds :
    LoggedIn(i)
    => /\ reqs[i].token \in IssuedTokens(reqs[i].route.ex)
       /\ IssuedRecord(reqs[i].route.ex, reqs[i].token).caps = reqs[i].yours
       /\ \A j \in ReqIds \ {i} : LoggedIn(j) => reqs[j].token # reqs[i].token


(***************************************************************************)
(* C15.  In every reachable state the keys of the dynamic token map are    *)
(* disjoint from the pre-seeded static token strings (those of the         *)
(* service's fallback table and of the guard's table; for Example 1 the    *)
(* documented test tokens), so the static tokens keep resolving to their   *)
(* static records.                                                         *)
(***************************************************************************)
C15_DynamicDisjointFromStatic ==
  /\ DOMAIN tokenMap2 \cap
       (DOMAIN Example2PredefinedTokens \cup DOMAIN Example2GuardUsers) = {}
  /\ DOMAIN tokenMap3 \cap
       (DOMAIN Example3PredefinedTokens \cup DOMAIN Example3GuardUsers) = {}
  /\ DOMAIN jwt \cap Example1TestTokens = {}
  /\ \A ex \in {2, 3} : \A token \in DOMAIN StaticTable(ex) :
       ServiceValidateToken(ex, token) = StaticTable(ex)[token]

\* with two tokens issued, a static token was resolved to its static record
C15_Witness ==
  \E i \in ReqIds :
    /\ Cardinality(DOMAIN tokenMap2) = 2
    /\ Resolved(reqs[i], 2)
    /\ reqs[i].token = "token-creator"
    /\ reqs[i].found = Example2PredefinedTokens["token-creator"]


(***************************************************************************)
(* C16.  Original statement: once a token has been issued by login it      *)
(* stays resolvable to the same record, in each of the three examples: no  *)
(* operation and no passage of time removes, expires or changes it.        *)
(***************************************************************************)
C16_IssuedStaysResolvable ==
  \A ex \in 1..3 : \A token \in IssuedTokens(ex) :
    ServiceValidateToken(ex, token) = IssuedRecord(ex, token)

\* the dynamic maps only grow, and the signed JWTs keep their payload
IssuedKept ==
  /\ \A token \in DOMAIN tokenMap2 :
       token \in DOMAIN tokenMap2' /\ tokenMap2'[token] = tokenMap2[token]
  /\ \A token \in DOMAIN tokenMap3 :
       token \in DOMAIN tokenMap3' /\ tokenMap3'[token] = tokenMap3[token]
  /\ \A token \in DOMAIN jwt :
       token \in DOMAIN jwt' /\ jwt'[token] = jwt[token]

\* what an issued token resolves to, at the present time
ResolvesUntilExpiry ==
  /\ \A ex \in {2, 3} : \A token \in IssuedTokens(ex) :
       ServiceValidateToken(ex, token) = IssuedRecord(ex, token)
  /\ \A token \in DOMAIN jwt :
       ServiceValidateToken(1, token) =
         IF now < jwt[token].iat + ExpiresIn THEN jwt[token].user ELSE Null

(***************************************************************************)
(* C16, amended.  In Examples 2 and 3 a token issued by login stays in the *)
(* service's token map with the same record for the life of the process:   *)
(* no operation and no passage of time removes or changes it, and the      *)
(* service's lookup keeps resolving it to that record.  In Example 1 the   *)
(* token is a JWT that expires 24 hours after it was issued: it verifies   *)
(* to the same identity until then, and to nothing afterwards.             *)
(***************************************************************************)
C16_IssuedKeptUntilExpiry ==
  []ResolvesUntilExpiry /\ [][IssuedKept]_vars

\* a token issued at time 0 was resolved to its record at a later time
C16_Witness ==
  \E i \in ReqIds :
    /\ now > 0
    /\ Resolved(reqs[i], 2)
    /\ reqs[i].token = "token-creator-0-xyz789"
    /\ reqs[i].token \in DOMAIN tokenMap2
    /\ reqs[i].found = tokenMap2[reqs[i].token]


(***************************************************************************)
(* C17.  The two authentication failures are reported as distinct errors:  *)
(* a missing or malformed header yields 401 'Authentication token not      *)
(* found', and a bearer token that is not found in the store yields 401    *)
(* 'Invalid authentication token'.                                         *)
(***************************************************************************)
C17_DistinctAuthenticationErrors ==
  \A i \in ReqIds :
    LET r == reqs[i]
    IN  (r.pc = "done" /\ r.authn = "deny")
        => /\ r.status = 401
           /\ ~r.looked => r.text = "Authentication token not found"
           /\ r.looked => r.text = "Invalid authentication token"

(***************************************************************************)
(* The Authorization header, given by its pieces: well formed when it is   *)
(* the word Bearer, one space and a token.                                 *)
(***************************************************************************)
WellFormed(header) ==
  /\ Len(header) >= 3
  /\ header[1] = "Bearer"
  /\ header[2] = " "
  /\ header[3] # " "

\* the guard's own table of example ex (Examples 2 and 3)
GuardTable(ex) == IF ex = 2 THEN Example2GuardUsers ELSE Example3GuardUsers

(***************************************************************************)
(* C18.  The bearer token is taken from the Authorization header only when *)
(* the header is 'Bearer <token>', the scheme word matched case-           *)
(* sensitively: with no header, another scheme ('bearer' and 'BEARER'      *)
(* included) or the scheme without a token, the request ends with 401      *)
(* 'Authentication token not found' and the store is not consulted; with   *)
(* 'Bearer <token>' the store is consulted for exactly that token.         *)
(***************************************************************************)
C18_BearerSchemeCaseSensitive ==
  \A i \in ReqIds :
    LET r == reqs[i]
    IN  (r.route.guarded /\ ~MarkedPublic(r.route) /\ r.pc \notin {"idle", "auth"})
        => /\ r.looked <=> WellFormed(r.header)
           /\ ~WellFormed(r.header)
                => /\ r.pc = "done"
                   /\ r.authn = "deny"
                   /\ r.status = 401
                   /\ r.text = "Authentication token not found"
                   /\ ~r.user.present
           /\ (WellFormed(r.header) /\ r.route.ex \in {2, 3})
                => r.found = MapGet(GuardTable(r.route.ex), r.header[3])

\* 'bearer token-full-access' was answered with 'Authentication token not found'
C18_Witness ==
  \E i \in ReqIds :
    /\ reqs[i].pc = "done"
    /\ reqs[i].header = <<"bearer", " ", "token-full-access">>
    /\ ~reqs[i].looked
    /\ reqs[i].status = 401
    /\ reqs[i].text = "Authentication token not found"


(***************************************************************************)
(* The value the closest declaration gives: the handler's when the handler *)
(* declares one, the class's otherwise.                                    *)
(***************************************************************************)
ClosestPublic(route) ==
  IF route.hPublic.def THEN route.hPublic.val
  ELSE route.cPublic.def /\ route.cPublic.val

\* the route with its closest requirement declared on the handler alone
ClosestOnly(route) ==
  [route EXCEPT !.hReq = IF route.hReq.def THEN route.hReq ELSE route.cReq,
                !.cReq = NoReq]

\* the authentication guard let the request pass without looking at a token
Bypassed(r) == r.authn = "allow" /\ ~r.looked /\ ~r.user.present

(***************************************************************************)
(* C19.  The requirement lookup is closest-wins, for the public flag and   *)
(* for the required set alike: when the handler declares a value, that     *)
(* value is used and the class's is ignored; the class's value is used     *)
(* only when the handler declares none.  So the authentication guard lets  *)
(* a request pass unauthenticated exactly when the closest public flag is  *)
(* true, and the authorization guard decides exactly as it would on a      *)
(* route carrying the closest requirement alone.                           *)
(***************************************************************************)
C19_ClosestWins ==
  \A i \in ReqIds :
    LET r == reqs[i]
        d == AuthorizationGuard(ClosestOnly(r.route), r.user)
    IN  (r.route.guarded /\ r.pc \notin {"idle", "auth"})
        => /\ Bypassed(r) <=> ClosestPublic(r.route)
           /\ Evaluated(r)
                => /\ r.authz = "allow" <=> d.allow
                   /\ r.authz = "deny"
                        => /\ r.status = d.status
                           /\ r.text = d.text
                           /\ r.list = d.list

\* a request was allowed by the handler's requirement while its identity
\* lacks a capability the class requires
C19_Witness ==
  \E i \in ReqIds :
    LET r == reqs[i]
    IN  /\ r.pc = "done"
        /\ r.route.hReq.def /\ r.route.cReq.def
        /\ r.route.hReq.val # <<>>
        /\ r.user.present
        /\ r.authz = "allow"
        /\ r.handled
        /\ \E k \in DOMAIN r.route.cReq.val :
             ~Includes(r.user.caps, r.route.cReq.val[k])


(***************************************************************************)
(* The static directory of demo users of an example, by username.          *)
(***************************************************************************)
Directory(ex) ==
  CASE ex = 1 -> {JwtUsers[k].username : k \in DOMAIN JwtUsers}
    [] ex = 2 -> {Example2Users[k].username : k \in DOMAIN Example2Users}
    [] ex = 3 -> {Example3Users[k].username : k \in DOMAIN Example3Users}

\* the login handler of request i answers in this step
LoginAnswers(i) ==
  /\ IsLogin(reqs[i].route)
  /\ reqs[i].pc = "handler"
  /\ reqs'[i].pc = "done"
  /\ reqs'[i].handled

DirectoryUsers(ex) ==
  CASE ex = 1 -> JwtUsers [] ex = 2 -> Example2Users [] ex = 3 -> Example3Users

DirectoryRecord(ex, username) ==
  Find(DirectoryUsers(ex),
       {k \in DOMAIN DirectoryUsers(ex) : DirectoryUsers(ex)[k].username = username})

LoginAnswered(r) == r.pc = "done" /\ IsLogin(r.route) /\ r.handled

DocumentedRoles ==
  [t \in {"token-read", "token-admin", "token-manager", "token-superadmin"} |->
     CASE t = "token-read" -> {Role.READ}
       [] t = "token-admin" -> {Role.ADMIN, Role.READ}
       [] t = "token-manager" -> {Role.MANAGER, Role.READ}
       [] t = "token-superadmin" ->
            {Role.SUPER_ADMIN, Role.ADMIN, Role.MANAGER, Role.READ}]

(***************************************************************************)
(* C22.  In Example 1 the pre-seeded bearer tokens are accepted by the     *)
(* authentication guard with the documented roles, so that a request       *)
(* bearing one of them is allowed when the route requires one of its roles *)
(* (GET /example1/users with token-read, POST /example1/users with         *)
(* token-admin) and is denied with 403 otherwise (POST /example1/users     *)
(* with token-read).                                                       *)
(***************************************************************************)
C22_Example1TestTokensAccepted ==
  \A i \in ReqIds :
    LET r == reqs[i]
    IN  ( /\ r.pc = "done"
          /\ r.route.ex = 1 /\ r.route.guarded /\ ~MarkedPublic(r.route)
          /\ Len(r.header) = 3 /\ r.header[1] = "Bearer" /\ r.header[2] = " "
          /\ r.header[3] \in DOMAIN DocumentedRoles )
        => /\ r.authn = "allow"
           /\ r.user.present
           /\ Range(r.user.caps) = DocumentedRoles[r.header[3]]
           /\ r.status # 401
           /\ r.status = 403
                <=> /\ RequiredCapabilities(r.route) # <<>>
                    /\ Range(RequiredCapabilities(r.route))
                         \cap DocumentedRoles[r.header[3]] = {}


(***************************************************************************)
(* The permissions README.md documents for the test tokens of Example 3.   *)
(***************************************************************************)
DocumentedPermissions ==
  [t \in {"token-admin-full", "token-content-manager", "token-product-manager",
          "token-customer-service", "token-readonly"} |->
     CASE t = "token-admin-full" -> Range(AllModulePermissions)
       [] t = "token-content-manager" ->
            {ModulePermission.POSTS_LIST, ModulePermission.POSTS_READ,
             ModulePermission.POSTS_CREATE, ModulePermission.POSTS_UPDATE,
             ModulePermission.POSTS_PUBLISH}
       [] t = "token-product-manager" ->
            {ModulePermission.PRODUCTS_LIST, ModulePermission.PRODUCTS_READ,
             ModulePermission.PRODUCTS_CREATE, ModulePermission.PRODUCTS_UPDATE,
             ModulePermission.PRODUCTS_MANAGE_INVENTORY}
       [] t = "token-customer-service" ->
            {ModulePermission.ORDERS_LIST, ModulePermission.ORDERS_READ,
             ModulePermission.ORDERS_UPDATE, ModulePermission.ORDERS_CANCEL,
             ModulePermission.ORDERS_REFUND,
             ModulePermission.USERS_LIST, ModulePermission.USERS_READ}
       [] t = "token-readonly" ->
            {ModulePermission.USERS_LIST, ModulePermission.USERS_READ,
             ModulePermission.POSTS_LIST, ModulePermission.POSTS_READ,
             ModulePermission.PRODUCTS_LIST, ModulePermission.PRODUCTS_READ,
             ModulePermission.ORDERS_LIST, ModulePermission.ORDERS_READ}]

\* the routes of Example 3's three guarded controllers
Example3GuardedRoutes ==
  Example3UsersRoutes \cup Example3ProductsRoutes \cup Example3OrdersRoutes

\* the request bears exactly 'Bearer <token>'
Bears(r, token) == r.header = <<"Bearer", " ", token>>

(***************************************************************************)
(* C23.  For every pre-seeded Example 3 token and every Example 3 route,   *)
(* the request passes both guards if and only if the route's required      *)
(* module permission is among the permissions documented for the token,    *)
(* and is answered 403 otherwise: token-customer-service may list users    *)
(* and refund an order, token-product-manager may list products and manage *)
(* inventory, token-customer-service gets 403 on POST /example3/products.  *)
(***************************************************************************)
C23_Example3TokensAsDocumented ==
  \A i \in ReqIds : \A token \in DOMAIN DocumentedPermissions :
    LET r == reqs[i]
        permitted == Range(RequiredCapabilities(r.route))
                       \subseteq DocumentedPermissions[token]
    IN  (r.pc = "done" /\ r.route \in Example3GuardedRoutes /\ Bears(r, token))
        => /\ r.authn = "allow"
           /\ Range(r.user.caps) = DocumentedPermissions[token]
           /\ permitted <=> r.authz = "allow"
           /\ permitted => (r.handled \/ (~r.valid /\ r.status = 400))
           /\ ~permitted => (r.status = 403 /\ ~r.handled)

\* token-customer-service was refused POST /example3/products with 403
C23_Witness ==
  \E i \in ReqIds :
    /\ reqs[i].pc = "done"
    /\ reqs[i].route.name = "POST /example3/products"
    /\ Bears(reqs[i], "token-customer-service")
    /\ reqs[i].status = 403
    /\ reqs[i].list = <<ModulePermission.PRODUCTS_CREATE>>


(***************************************************************************)
(* Example 1 alone: each of the four directory users may log in, and the   *)
(* token of a login is sent to the routes of UsersController.              *)
(***************************************************************************)
RolesHeaders(route) ==
  IF IsLogin(route) THEN {<<>>}
  ELSE {<<"Bearer", " ", t>> : t \in DOMAIN jwt}

ArriveRoles(i) ==
  /\ reqs[i].pc = "idle"
  /\ \E route \in Example1Routes : \E header \in RolesHeaders(route) :
       \E valid \in BOOLEAN :
         NewRequest(i, route, header, valid)

RolesLogin(i) ==
  /\ reqs[i].pc = "handler"
  /\ \E k \in DOMAIN JwtUsers : \E password \in Passwords :
       Example1Login(i, JwtUsers[k].username, password)

NextRoles ==
  \/ ArriveRoles(1)
  \/ AuthGuardCanActivate(1)
  \/ AuthGuardResume(1)
  \/ AuthorizationGuardCanActivate(1)
  \/ ValidationPipe(1)
  \/ Handler(1)
  \/ RolesLogin(1)
  \/ Complete(1)
  \/ Tick

SpecRoles == Init /\ [][NextRoles]_vars

(***************************************************************************)
(* The role that decides each of four Example 1 routes, as documented.     *)
(***************************************************************************)
DecidingRole ==
  [name \in {"GET /example1/users", "POST /example1/users",
             "PUT /example1/users/:id", "DELETE /example1/users/:id"} |->
     CASE name = "GET /example1/users" -> Role.READ
       [] name = "POST /example1/users" -> Role.ADMIN
       [] name = "PUT /example1/users/:id" -> Role.MANAGER
       [] name = "DELETE /example1/users/:id" -> Role.SUPER_ADMIN]

\* the request bears a token that a login of Example 1 issued
BearsLoginToken(r) ==
  /\ Len(r.header) = 3 /\ r.header[1] = "Bearer" /\ r.header[2] = " "
  /\ r.header[3] \in DOMAIN jwt

(***************************************************************************)
(* C24.  For every identity obtained by logging in to Example 1 (one of    *)
(* the four directory users), POST /example1/users is allowed if and only  *)
(* if the identity holds the admin role, PUT /example1/users/:id if and    *)
(* only if it holds manager, DELETE /example1/users/:id if and only if it  *)
(* holds super_admin, and GET /example1/users if and only if it holds      *)
(* read; a request that is not allowed is answered 403.                    *)
(***************************************************************************)
C24_Example1RouteRoles ==
  /\ \A i \in ReqIds :
       LET r == reqs[i]
       IN  ( /\ r.pc = "done"
             /\ r.route \in Example1Routes
             /\ r.route.name \in DOMAIN DecidingRole
             /\ BearsLoginToken(r)
             /\ r.authn = "allow" )
           => /\ r.user = jwt[r.header[3]].user
              /\ r.user \in Range(JwtUsers)
              /\ r.authz = "allow"
                   <=> Includes(r.user.caps, DecidingRole[r.route.name])
              /\ r.authz = "allow" => (r.handled \/ (~r.valid /\ r.status = 400))
              /\ r.authz # "allow" => (r.status = 403 /\ ~r.handled)
  /\ (\E i \in ReqIds : Evaluated(reqs[i]))
       => \A route \in Example1Routes : \A k \in DOMAIN JwtUsers :
            route.name \in DOMAIN DecidingRole
            => (RolesGuard(route, JwtUsers[k]).allow
                  <=> Includes(JwtUsers[k].caps, DecidingRole[route.name]))

\* the manager's login token was refused POST /example1/users with 403
C24_Witness ==
  \E i \in ReqIds :
    /\ reqs[i].pc = "done"
    /\ reqs[i].route.name = "POST /example1/users"
    /\ BearsLoginToken(reqs[i])
    /\ reqs[i].user.username = "jane_manager"
    /\ reqs[i].status = 403


(***************************************************************************)
(* Requests in flight together: every slot runs the guard chain, and the   *)
(* steps of different requests interleave in any order, with a login of    *)
(* Example 1 and with the passage of time.                                 *)
(***************************************************************************)
ChainRoutes ==
  {route \in AppRoutes :
     route.name \in {"POST /example1/users/login", "GET /example1/users",
                     "POST /example2/posts", "GET /example3/orders"}}

ChainTokens(ex) ==
  CASE ex = 1 -> DOMAIN jwt \cup {"token-read"}
    [] ex = 2 -> {"token-read-only", "token-creator"}
    [] ex = 3 -> {"token-product-manager"}

ChainHeaders(route) ==
  IF IsLogin(route) THEN {<<>>}
  ELSE (IF route.ex = 2 THEN {<<>>} ELSE {}) \cup
       {<<"Bearer", " ", t>> : t \in ChainTokens(route.ex)}

ArriveChain(i) ==
  /\ reqs[i].pc = "idle"
  /\ \E route \in ChainRoutes : \E header \in ChainHeaders(route) :
       \E valid \in BOOLEAN :
         /\ valid \/ route.name = "POST /example2/posts"
         /\ NewRequest(i, route, header, valid)

ChainLogin(i) ==
  /\ reqs[i].pc = "handler"
  /\ Example1Login(i, "reader", Password123)

NextChain ==
  \/ \E i \in ReqIds : ArriveChain(i)
  \/ \E i \in ReqIds : AuthGuardCanActivate(i)
  \/ \E i \in ReqIds : AuthGuardResume(i)
  \/ \E i \in ReqIds : AuthorizationGuardCanActivate(i)
  \/ \E i \in ReqIds : ValidationPipe(i)
  \/ \E i \in ReqIds : Handler(i)
  \/ \E i \in ReqIds : ChainLogin(i)
  \/ \E i \in ReqIds : Complete(i)
  \/ Tick

SpecChain == Init /\ [][NextChain]_vars

(***************************************************************************)
(* The identity a request's own token stands for.                          *)
(***************************************************************************)
OwnToken(r) == r.header[3]

OwnIdentity(r) ==
  IF r.route.ex = 1
  THEN IF OwnToken(r) \in DOMAIN jwt THEN jwt[OwnToken(r)].user ELSE Null
  ELSE MapGet(GuardTable(r.route.ex), OwnToken(r))

\* two requests that were sent alike and whose tokens were resolved alike
SentAlike(r, q) ==
  /\ r.route = q.route
  /\ r.header = q.header
  /\ r.valid = q.valid
  /\ r.found = q.found

(***************************************************************************)
(* C25.  When several requests are in flight and their guard steps         *)
(* interleave in any order, the identity attached to a request is the one  *)
(* resolved from that request's own token, the authorization decision is   *)
(* taken on that identity, and two requests sent alike end alike whatever  *)
(* other requests are in flight.                                           *)
(***************************************************************************)
C25_OwnIdentity ==
  /\ \A i \in ReqIds :
       LET r == reqs[i]
       IN  (r.route.guarded /\ ~MarkedPublic(r.route))
           => /\ r.looked
                   => /\ WellFormed(r.header)
                      /\ r.found \in {Null, OwnIdentity(r)}
                      /\ r.route.ex \in {2, 3} => r.found = OwnIdentity(r)
              /\ r.user.present
                   => /\ r.looked
                      /\ r.user = OwnIdentity(r)
                      /\ r.user = r.found
              /\ Evaluated(r)
                   => /\ r.user.present
                      /\ r.authz = "allow"
                           <=> AuthorizationGuard(r.route, OwnIdentity(r)).allow
  /\ \A i \in ReqIds : \A j \in ReqIds :
       ( /\ reqs[i].pc = "done" /\ reqs[j].pc = "done"
         /\ reqs[i].route.guarded /\ ~MarkedPublic(reqs[i].route)
         /\ SentAlike(reqs[i], reqs[j]) )
       => reqs[i] = reqs[j]

\* two requests of the same example are past the authentication guard at
\* the same time, each with its own identity
C25_Witness ==
  \E i \in ReqIds : \E j \in ReqIds :
    /\ i # j
    /\ reqs[i].pc = "authz" /\ reqs[j].pc = "authz"
    /\ reqs[i].route = reqs[j].route
    /\ reqs[i].user.present /\ reqs[j].user.present
    /\ reqs[i].user # reqs[j].user
    /\ reqs[i].user = OwnIdentity(reqs[i])
    /\ reqs[j].user = OwnIdentity(reqs[j])


(***************************************************************************)
(* Inputs of the authorization decision that are alike: the same example   *)
(* (hence the same match rule), equal required sets, equal granted sets.   *)
(***************************************************************************)
AlikeForDecision(route, user, route2, user2) ==
  /\ route2.ex = route.ex
  /\ Range(RequiredCapabilities(route2)) = Range(RequiredCapabilities(route))
  /\ user2.present /\ user2.hasCaps
  /\ Range(user2.caps) = Range(user.caps)

(***************************************************************************)
(* C26.  The authorization decision is a function of the route's required  *)
(* set, its match rule and the identity's granted set only: the outcome of *)
(* an evaluated request whose identity has a granted set is the outcome    *)
(* the guard gives to every route and identity with an equal required set  *)
(* and an equal granted set, whatever the subject and the order of the     *)
(* arrays: the same allow or deny, the same status, the same set of        *)
(* missing permissions, and the same missing list when the required        *)
(* arrays are equal.                                                       *)
(***************************************************************************)
C26_DecisionDependsOnSetsOnly ==
  \A i \in ReqIds :
    LET r == reqs[i]
    IN  (r.route.guarded /\ Evaluated(r) /\ HasGranted(r))
        => \A route2 \in GuardedRoutes : \A user2 \in GuardUsers(r.route.ex) :
             AlikeForDecision(r.route, r.user, route2, user2)
             => LET d == AuthorizationGuard(route2, user2)
                IN  /\ d.allow <=> r.authz = "allow"
                    /\ ~d.allow
                         => /\ r.status = d.status
                            /\ Range(r.list) = Range(d.list)
                            /\ RequiredCapabilities(route2)
                                 = RequiredCapabilities(r.route)
                                 => r.list = d.list

\* subject 'reader' with granted <<read>> was denied POST /example2/posts,
\* as subject 'user' with the same granted set is
C26_Witness ==
  \E i \in ReqIds :
    /\ reqs[i].pc = "done"
    /\ reqs[i].route.name = "POST /example2/posts"
    /\ reqs[i].user = User("reader", <<Permission.READ>>)
    /\ reqs[i].authz = "deny"
    /\ reqs[i].list = <<Permission.CREATE>>
    /\ User("user", <<Permission.READ>>) \in GuardUsers(2)
    /\ ~PermissionsGuard(reqs[i].route, User("user", <<Permission.READ>>)).allow


(***************************************************************************)
(* Requests and logins of Example 2 in flight together, every request      *)
(* being served: Node's event loop runs each pending continuation, so a    *)
(* step of a request that stays enabled is eventually taken.               *)
(***************************************************************************)
LiveRoutes ==
  {route \in AppRoutes :
     route.name \in {"POST /example2/auth/login", "POST /example2/posts"}}

LiveHeaders(route) ==
  IF IsLogin(route) THEN {<<>>}
  ELSE {<<"Bearer", " ", t>> : t \in {"no-such-token", "token-read-only",
                                      "token-creator"}}

\* a body the ValidationPipe rejects is sent with the token that passes both
\* guards
ArriveLive(i) ==
  /\ reqs[i].pc = "idle"
  /\ \E route \in LiveRoutes : \E header \in LiveHeaders(route) :
       \E valid \in BOOLEAN :
         /\ valid \/ header = <<"Bearer", " ", "token-creator">>
         /\ NewRequest(i, route, header, valid)

LiveLogin(i) ==
  /\ reqs[i].pc = "handler"
  /\ Example2Login(i, "creator", Password123, "xyz789")

\* the next step of the request in slot i
ServeLive(i) ==
  \/ AuthGuardCanActivate(i)
  \/ AuthGuardResume(i)
  \/ AuthorizationGuardCanActivate(i)
  \/ ValidationPipe(i)
  \/ Handler(i)
  \/ LiveLogin(i)

NextLive ==
  \/ \E i \in ReqIds : ArriveLive(i)
  \/ \E i \in ReqIds : ServeLive(i)
  \/ \E i \in ReqIds : Complete(i)

SpecLive ==
  /\ Init
  /\ [][NextLive]_vars
  /\ \A i \in ReqIds : WF_vars(ServeLive(i))

(***************************************************************************)
(* The outcomes of a request that went through the guard chain.            *)
(***************************************************************************)
EndedIn401(r) == r.authn = "deny" /\ r.status = 401 /\ ~r.handled
EndedIn403(r) == r.authz = "deny" /\ r.status = 403 /\ ~r.handled
EndedIn400(r) ==
  /\ r.authn = "allow" /\ r.authz = "allow"
  /\ ~r.valid /\ r.status = 400 /\ ~r.handled
HandlerInvoked(r) == r.authn = "allow" /\ r.authz = "allow" /\ r.handled

\* how many of the predicates in the set hold
HowMany(outcomes) == Cardinality({k \in DOMAIN outcomes : outcomes[k]})

\* the position of a request in the chain
Stage(pc) ==
  CASE pc = "idle" -> 0 [] pc = "auth" -> 1 [] pc = "validate" -> 2
    [] pc = "authz" -> 3 [] pc = "pipes" -> 4 [] pc = "handler" -> 5
    [] pc = "done" -> 6

\* a request only moves forward, and a response is never changed
NoRetry ==
  \A i \in ReqIds :
    /\ reqs[i].pc \notin {"idle", "done"} => Stage(reqs'[i].pc) >= Stage(reqs[i].pc)
    /\ reqs[i].pc = "done" => reqs'[i] \in {reqs[i], Idle}
    /\ reqs[i].authn # "none" => reqs'[i].authn \in {reqs[i].authn, "none"}
    /\ reqs[i].authz # "none" => reqs'[i].authz \in {reqs[i].authz, "none"}
    /\ reqs[i].pc # "idle" /\ reqs'[i].pc # "idle"
         => (reqs[i].handled => reqs'[i].handled)

(***************************************************************************)
(* C27.  Original statement: every request that enters the guard chain     *)
(* ends in exactly one of three outcomes: handler invoked, 401, or 403.    *)
(***************************************************************************)
C27_ThreeOutcomes ==
  \A i \in ReqIds :
    LET r == reqs[i]
    IN  (r.pc = "done" /\ r.route.guarded)
        => HowMany(<<HandlerInvoked(r), EndedIn401(r), EndedIn403(r)>>) = 1

(***************************************************************************)
(* C27, amended.  Every request that enters the guard chain eventually     *)
(* ends, however logins and other requests interleave with it, in exactly  *)
(* one of four outcomes: handler invoked, 401 from the authentication      *)
(* guard, 403 from the authorization guard, or 400 from the global         *)
(* ValidationPipe after both guards allowed; before it ends it has no      *)
(* outcome, and no stage is run twice nor any verdict or response changed. *)
(***************************************************************************)
C27_EndsInOneOutcome ==
  /\ \A i \in ReqIds :
       (reqs[i].pc = "auth") ~> (reqs[i].pc = "done" /\ reqs[i].route.guarded)
  /\ [](\A i \in ReqIds :
          LET r == reqs[i]
          IN  r.route.guarded
              => /\ r.pc = "done"
                      => HowMany(<<HandlerInvoked(r), EndedIn401(r),
                                   EndedIn403(r), EndedIn400(r)>>) = 1
                 /\ r.pc # "done" => (r.status = 0 /\ ~r.handled))
  /\ [][NoRetry]_vars

\* while a login was being handled in another slot, a request that both
\* guards allowed was answered 400 by the ValidationPipe
C27_Witness ==
  \E i \in ReqIds : \E j \in ReqIds :
    /\ reqs[i].pc = "done"
    /\ reqs[i].route.guarded
    /\ EndedIn400(reqs[i])
    /\ IsLogin(reqs[j].route)
    /\ reqs[j].pc = "handler"


(***************************************************************************)
(* C28.  For every pre-seeded token of Example 2 and Example 3, the        *)
(* identity the example's AuthGuard attaches has the same permission set   *)
(* as the record AuthService.validateToken returns for that token, so the  *)
(* guard and the credential store agree on whether the token may access a  *)
(* route.                                                                  *)
(***************************************************************************)
C28_GuardAgreesWithService ==
  \A i \in ReqIds :
    LET r == reqs[i]
        record == ServiceValidateToken(r.route.ex, r.header[3])
    IN  ( /\ r.route.ex \in {2, 3}
          /\ r.route.guarded /\ ~MarkedPublic(r.route)
          /\ r.user.present
          /\ Len(r.header) = 3
          /\ r.header[3] \in DOMAIN StaticTable(r.route.ex) )
        => /\ record.present
           /\ Range(r.user.caps) = Range(record.caps)
           /\ AuthorizationGuard(r.route, r.user).allow
                <=> AuthorizationGuard(r.route, record).allow


(***************************************************************************)
(* Headers with more than one space after the scheme word.                 *)
(***************************************************************************)
\* 'Bearer T extra'
WithExtraField(header) ==
  /\ Len(header) = 5
  /\ header[1] = "Bearer" /\ header[2] = " " /\ header[3] # " "
  /\ header[4] = " " /\ header[5] # " "

\* 'Bearer  T': two spaces after the scheme word
WithTwoSpaces(header) ==
  /\ Len(header) = 4
  /\ header[1] = "Bearer" /\ header[2] = " " /\ header[3] = " "

\* what the guard of the route's example finds for a token
Looked(r, token) ==
  IF r.route.ex = 1 THEN {Null} \cup {jwt[t].user : t \in DOMAIN jwt \cap {token}}
  ELSE {MapGet(GuardTable(r.route.ex), token)}

(***************************************************************************)
(* C29.  The token looked up is exactly the second space-separated field   *)
(* of the Authorization header: further fields are ignored, so 'Bearer T   *)
(* extra' is looked up and authenticates as T; with two spaces after       *)
(* 'Bearer' the second field is empty, and the request is rejected as a    *)
(* missing token without a store lookup.                                   *)
(***************************************************************************)
C29_SecondFieldIsTheToken ==
  \A i \in ReqIds :
    LET r == reqs[i]
    IN  (r.route.guarded /\ ~MarkedPublic(r.route) /\ r.pc \notin {"idle", "auth"})
        => /\ WithExtraField(r.header)
                => /\ r.looked
                   /\ r.found \in Looked(r, r.header[3])
                   /\ r.route.ex \in {2, 3} => r.found.present
                   /\ r.user.present => r.user = r.found
                   /\ (r.pc = "done" /\ r.found.present) => r.status # 401
           /\ WithTwoSpaces(r.header)
                => /\ ~r.looked
                   /\ ~r.user.present
                   /\ r.pc = "done"
                   /\ r.status = 401
                   /\ r.text = "Authentication token not found"

\* 'Bearer token-full-access extra' was served as the user of
\* token-full-access
C29_Witness ==
  \E i \in ReqIds :
    /\ reqs[i].pc = "done"
    /\ reqs[i].header = <<"Bearer", " ", "token-full-access", " ", "extra">>
    /\ reqs[i].user = Example2GuardUsers["token-full-access"]
    /\ reqs[i].handled


(***************************************************************************)
(* Steps and states of the authentication guard, for one request.          *)
(***************************************************************************)
\* request.user is assigned in this step
Attaches(i) == ~reqs[i].user.present /\ reqs'[i].user.present

\* the authentication guard rejected the request
Rejected401(r) == r.authn = "deny"

(***************************************************************************)
(* C30.  Whenever the authentication guard rejects a request with 401, no  *)
(* identity has been attached to that request: request.user is set only    *)
(* on the path where the token resolved to a record, in the very step in   *)
(* which the guard returns allow, and is the record that was found.        *)
(***************************************************************************)
C30_NoIdentityOn401 ==
  /\ [](\A i \in ReqIds :
          LET r == reqs[i]
          IN  /\ Rejected401(r)
                   => (r.pc = "done" /\ r.status = 401 /\ ~r.user.present)
              /\ r.user.present
                   => (r.authn = "allow" /\ r.looked /\ r.found.present
                       /\ r.user = r.found))
  /\ [][\A i \in ReqIds :
          Attaches(i)
          => /\ reqs[i].pc = "validate"
             /\ reqs[i].found.present
             /\ reqs[i].authn = "none"
             /\ reqs'[i].authn = "allow"
             /\ reqs'[i].pc = "authz"
             /\ reqs'[i].user = reqs[i].found]_vars

\* a request whose token was looked up and not found was rejected with 401
\* and carries no identity
C30_Witness ==
  \E i \in ReqIds :
    /\ reqs[i].pc = "done"
    /\ reqs[i].looked
    /\ ~reqs[i].found.present
    /\ Rejected401(reqs[i])
    /\ reqs[i].status = 401
    /\ reqs[i].text = "Token validation failed"
    /\ ~reqs[i].user.present

====
